---- MODULE Spec2Model ----
(***************************************************************************)
(* Guard lifecycle of the BanyanHub SDK: the authorization state machine,  *)
(* license verification with its on-disk cache, Guard.Start / Stop /       *)
(* Check, and the heartbeat loop started by Start.                         *)
(*                                                                         *)
(* Time is kept relative: a sleeping loop holds the ticks that remain of   *)
(* its jittered sleep, and graceStart holds the ticks elapsed since        *)
(* time.Now() was stored in it (saturating just above MaxOfflineDuration,  *)
(* the only value it is ever compared with).                               *)
(***************************************************************************)
EXTENDS Integers, Sequences, FiniteSets, TLC

(* ------------------------------ bounds --------------------------------- *)
\* cfg.HeartbeatInterval and cfg.GracePolicy.MaxOfflineDuration, in ticks
HeartbeatInterval == 2
MaxOfflineDuration == 3
\* rand.Float64() is drawn from {0/RandSteps, ..., (RandSteps-1)/RandSteps}
RandSteps == 2
\* number of Guard.Start calls the application makes
MaxStarts == 2
\* heartbeat goroutines that may be alive at the same time
Loops == {1, 2}
\* callers of the bare state machine
Callers == {1, 2}
\* heartbeat responses processed, update attempts and UpdatePlugin calls made
\* while the update engine is watched
MaxHeartbeats == 1
MaxAttempts == 2
MaxPluginCalls == 1
\* goroutines that write the version state while a heartbeat request is
\* built, and the writes each of them makes
Writers == {1, 2}
MaxWrites == 2
Procs == 1 .. MaxAttempts
\* download bodies have up to MaxBodyBytes bytes, OTA.MaxArtifactBytes is
\* configured from 1 to MaxLimitBytes, and a Read is given a buffer of
\* BufBytes bytes
MaxBodyBytes == 5
MaxLimitBytes == 3
BufBytes == 2

(* ------------------------------ errors --------------------------------- *)
\* An error value: the sentinel at the bottom of its %w chain, the number of
\* fmt.Errorf wrappers around it, and the text attached by the wrapper.
Err(s, w, d) == [s |-> s, w |-> w, d |-> d]
Nil == Err("nil", 0, "")
\* placeholders where no call has returned a value yet
NoCall == Err("no call", 0, "")
Pending == Err("pending", 0, "")
ErrLicenseInvalid == Err("ErrLicenseInvalid", 0, "")
ErrLicenseExpired == Err("ErrLicenseExpired", 0, "")
ErrLicenseSuspended == Err("ErrLicenseSuspended", 0, "")
ErrMachineBanned == Err("ErrMachineBanned", 0, "")
ErrMaxMachinesExceeded == Err("ErrMaxMachinesExceeded", 0, "")
ErrProjectNotAuthorized == Err("ErrProjectNotAuthorized", 0, "")
ErrNetworkError == Err("ErrNetworkError", 0, "")
ErrInvalidServerResponse == Err("ErrInvalidServerResponse", 0, "")
ErrNotActivated == Err("ErrNotActivated", 0, "")
ErrLocked == Err("ErrLocked", 0, "")
ErrBanned == Err("ErrBanned", 0, "")
\* fmt.Errorf("...%w...", e, d): e stays in the chain, d is attached as text
Wrap(e, d) == Err(e.s, e.w + 1, d)
\* errors.Is(e, target) for a sentinel target
Is(e, target) == e.s = target.s

(* --------------------------- state machine ----------------------------- *)
StateInit == "INIT"
StateActive == "ACTIVE"
StateGrace == "GRACE"
StateLocked == "LOCKED"
StateBanned == "BANNED"
States == {StateInit, StateActive, StateGrace, StateLocked, StateBanned}

\* mutant: the guard on the current state is missing
OnVerifySuccessUnguarded(s) == StateActive
\* mutant: GRACE is missing from the guard
OnVerifySuccessInitOnly(s) == IF s = StateInit THEN StateActive ELSE s

OnVerifySuccess(s) == IF s = StateInit \/ s = StateGrace THEN StateActive ELSE s

\* mutant: the wrong constant is assigned
OnHeartbeatOKWrongState(s) ==
  IF s = StateGrace \/ s = StateActive THEN StateGrace ELSE s

\* mutant: a successful heartbeat unlocks
OnHeartbeatOKUnlocks(s) ==
  IF s = StateGrace \/ s = StateActive \/ s = StateLocked THEN StateActive ELSE s

OnHeartbeatOK(s) == IF s = StateGrace \/ s = StateActive THEN StateActive ELSE s

\* mutant: INIT is armed too
OnHeartbeatFailFromInit(s) ==
  IF s = StateActive \/ s = StateInit THEN StateGrace ELSE s

OnHeartbeatFail(s) == IF s = StateActive THEN StateGrace ELSE s

OnKill(s) == StateBanned

\* mutant: ACTIVE is locked as well
OnGracePeriodExpiredFromActive(s) ==
  IF s = StateGrace \/ s = StateActive THEN StateLocked ELSE s

OnGracePeriodExpired(s) == IF s = StateGrace THEN StateLocked ELSE s

Events == {"OnVerifySuccess", "OnHeartbeatOK", "OnHeartbeatFail",
           "OnGracePeriodExpired", "OnKill"}

\* the body of the method named e, run under sm.mu
Apply(e, s) ==
  CASE e = "OnVerifySuccess" -> OnVerifySuccess(s)
    [] e = "OnHeartbeatOK" -> OnHeartbeatOK(s)
    [] e = "OnHeartbeatFail" -> OnHeartbeatFail(s)
    [] e = "OnGracePeriodExpired" -> OnGracePeriodExpired(s)
    [] e = "OnKill" -> OnKill(s)

\* mutant: GRACE is listed with LOCKED
CheckGraceLocked(s) ==
  CASE s = StateActive -> Nil
    [] s = StateLocked \/ s = StateGrace -> ErrLocked
    [] s = StateBanned -> ErrBanned
    [] OTHER -> ErrNotActivated

Check(s) ==
  CASE s = StateActive \/ s = StateGrace -> Nil
    [] s = StateLocked -> ErrLocked
    [] s = StateBanned -> ErrBanned
    [] s = StateInit -> ErrNotActivated
    [] OTHER -> ErrNotActivated

(* ------------------------ license verification ------------------------- *)
\* g.publicKey is the key of signer "K1"; "K2" is any other key pair.
PublicKey == "K1"
Signers == {"K1", "K2"}
PublicDatas == {"d1", "d2"}
\* cfg.LicenseKey and some other key
LicenseKey == "lic1"
LicenseKeys == {"lic1", "lic2"}
Sha256(d) == <<"sha256", d>>
\* what a signer may have signed: the digest of a payload, or a raw payload
SigMessages == {Sha256(d) : d \in PublicDatas} \cup {<<"raw", "d1">>}
\* a signature string: text that is or is not base64, and what it decodes to
SigStrings ==
  [b64 : {TRUE}, signer : Signers, msg : SigMessages]
    \cup {[b64 |-> FALSE, signer |-> "K2", msg |-> <<"raw", "d1">>]}

\* base64.StdEncoding.DecodeString
Base64Decode(str) ==
  IF str.b64 THEN [err |-> FALSE, sig |-> [signer |-> str.signer, msg |-> str.msg]]
  ELSE [err |-> TRUE, sig |-> [signer |-> "", msg |-> <<>>]]

\* ed25519.Verify(pub, message, sig)
Ed25519Verify(pub, message, sig) == sig.signer = pub /\ sig.msg = message

\* the file license.cache of (project, component)
NoFile == [kind |-> "nofile"]
Unreadable == [kind |-> "unreadable"]
Malformed == [kind |-> "malformed"]
Entry(lk, pd, sg, at) ==
  [kind |-> "entry", LicenseKey |-> lk, PublicData |-> pd, Signature |-> sg,
   VerifiedAt |-> at]
CacheFiles ==
  {NoFile, Unreadable, Malformed}
    \cup {Entry(lk, pd, sg, at) : lk \in LicenseKeys, pd \in PublicDatas,
                                  sg \in SigStrings, at \in {"t0", "t1"}}

\* loadCachedLicense: os.ReadFile, then json.Unmarshal
loadCachedLicense(file) ==
  IF file.kind = "entry" THEN [err |-> FALSE, cached |-> file]
  ELSE [err |-> TRUE, cached |-> file]

\* mutant: the signature is checked over the payload, not over its digest
CacheHitRaw(file) ==
  LET l == loadCachedLicense(file) IN
  /\ ~l.err
  /\ LET dec == Base64Decode(l.cached.Signature) IN
     /\ ~dec.err
     /\ Ed25519Verify(PublicKey, <<"raw", l.cached.PublicData>>, dec.sig)

\* mutant: an entry cached for another license key is not used
CacheHitSameKey(file) ==
  LET l == loadCachedLicense(file) IN
  /\ ~l.err
  /\ l.cached.LicenseKey = LicenseKey
  /\ LET dec == Base64Decode(l.cached.Signature) IN
     /\ ~dec.err
     /\ Ed25519Verify(PublicKey, Sha256(l.cached.PublicData), dec.sig)

\* step 1 of verifyLicense: the cache is usable
CacheHit(file) ==
  LET l == loadCachedLicense(file) IN
  /\ ~l.err
  /\ LET dec == Base64Decode(l.cached.Signature) IN
     /\ ~dec.err
     /\ Ed25519Verify(PublicKey, Sha256(l.cached.PublicData), dec.sig)

\* what the server does with POST /api/v1/verify
ErrorCodes == {"", "license_not_found", "license_inactive", "license_expired",
               "project_not_authorized", "max_machines_exceeded",
               "machine_banned", "quota_exceeded"}
\* a payload the server sends where the client does not look at it
AnySignature == [b64 |-> FALSE, signer |-> "K2", msg |-> <<"raw", "d1">>]
VerifyResponses ==
  [net : {"ok"}, Error : {""}, PublicData : PublicDatas, Signature : SigStrings]
    \cup [net : {"ok"}, Error : ErrorCodes \ {""}, PublicData : {"d1"},
          Signature : {AnySignature}]
    \cup [net : {"transport", "status", "decode"}, Error : {"", "license_expired"},
          PublicData : {"d1"}, Signature : {AnySignature}]

\* postJSON: the error it returns for a server behaviour
postJSON(resp) ==
  CASE resp.net = "transport" -> Err("transport", 1, "send request")
    [] resp.net = "status" -> Wrap(ErrInvalidServerResponse, "status")
    [] resp.net = "decode" -> Wrap(ErrInvalidServerResponse, "decode")
    [] OTHER -> Nil

\* cacheLicense: errors of MkdirAll and WriteFile are dropped; wrote tells
\* whether the file system accepted the write
cacheLicense(file, publicData, signature, wrote) ==
  IF wrote THEN Entry(LicenseKey, publicData, signature, "t1") ELSE file

\* mutant: the case of license_inactive is missing
licenseErrorMissingCase(code) ==
  CASE code = "license_not_found" -> ErrLicenseInvalid
    [] code = "license_expired" -> ErrLicenseExpired
    [] code = "project_not_authorized" -> ErrProjectNotAuthorized
    [] code = "max_machines_exceeded" -> ErrMaxMachinesExceeded
    [] code = "machine_banned" -> ErrMachineBanned
    [] OTHER -> Wrap(ErrLicenseInvalid, code)

\* verifyLicense, lines 59-74: the typed error of an error code
licenseError(code) ==
  CASE code \in {"license_not_found", "license_inactive"} -> ErrLicenseInvalid
    [] code = "license_expired" -> ErrLicenseExpired
    [] code = "project_not_authorized" -> ErrProjectNotAuthorized
    [] code = "max_machines_exceeded" -> ErrMaxMachinesExceeded
    [] code = "machine_banned" -> ErrMachineBanned
    [] OTHER -> Wrap(ErrLicenseInvalid, code)

\* mutant: the answer is cached before its error code is looked at
verifyRemoteCachesFirst(file, resp, wrote) ==
  IF postJSON(resp) # Nil
    THEN [err |-> Wrap(ErrNetworkError, postJSON(resp).s), calls |-> 1,
          file |-> file]
  ELSE IF resp.Error # ""
    THEN [err |-> licenseError(resp.Error), calls |-> 1,
          file |-> cacheLicense(file, resp.PublicData, resp.Signature, wrote)]
  ELSE [err |-> Nil, calls |-> 1,
        file |-> cacheLicense(file, resp.PublicData, resp.Signature, wrote)]

\* verifyLicense, lines 33-79: the exchange with the server
verifyRemote(file, resp, wrote) ==
  IF postJSON(resp) # Nil
    THEN [err |-> Wrap(ErrNetworkError, postJSON(resp).s), calls |-> 1,
          file |-> file]
  ELSE IF resp.Error # ""
    THEN [err |-> licenseError(resp.Error), calls |-> 1, file |-> file]
  ELSE [err |-> Nil, calls |-> 1,
        file |-> cacheLicense(file, resp.PublicData, resp.Signature, wrote)]

\* mutant: a cache file that cannot be parsed or decoded is returned as an error
verifyLicenseCacheErr(file, resp, wrote) ==
  IF CacheHit(file) THEN [err |-> Nil, calls |-> 0, file |-> file]
  ELSE IF file.kind = "malformed" \/ (file.kind = "entry" /\ ~file.Signature.b64)
    THEN [err |-> Wrap(ErrLicenseInvalid, "cache"), calls |-> 0, file |-> file]
  ELSE verifyRemote(file, resp, wrote)

\* verifyLicense on the cache file and the server's behaviour: the error
\* returned, the requests sent and the cache file left behind
verifyLicense(file, resp, wrote) ==
  IF CacheHit(file) THEN [err |-> Nil, calls |-> 0, file |-> file]
  ELSE verifyRemote(file, resp, wrote)

(* ------------------------------ heartbeat ------------------------------ *)
\* time.Duration(float64(interval) * (0.9 + rand.Float64()*0.2)) for
\* rand.Float64() = r/RandSteps, truncated as the conversion truncates
Jitter(r) == (HeartbeatInterval * (9 * RandSteps + 2 * r)) \div (10 * RandSteps)
Jitters == {Jitter(r) : r \in 0 .. RandSteps - 1}

\* mutant: ErrBanned is missing from the fatal set
isFatalErrorNoBanned(err) == err = ErrLicenseSuspended \/ err = ErrMachineBanned

isFatalError(err) ==
  err = ErrBanned \/ err = ErrLicenseSuspended \/ err = ErrMachineBanned

\* what the server does with POST /api/v1/heartbeat
HeartbeatResponses ==
  [net : {"ok"}, Status : {"ok", "kill"}]
    \cup [net : {"transport", "status", "decode"}, Status : {"ok", "kill"}]

\* time.Time{} in graceStart
ZeroTime == -1
\* mutant: any time since a failure counts as expired
GraceExpiredAtOnce(since) == since >= 0

\* mutant: the window ends when MaxOfflineDuration is reached
GraceExpiredAtLimit(since) == since >= MaxOfflineDuration
\* time.Since(graceStart) > MaxOfflineDuration
GraceExpired(since) == since > MaxOfflineDuration
\* mutant: the IsZero test is missing, every failure restarts the window
markGraceStartAlways(gs) == 0

\* lines 100-102: graceStart = time.Now() if it is zero
markGraceStart(gs) == IF gs = ZeroTime THEN 0 ELSE gs
\* one tick later
Age(since) ==
  IF since = ZeroTime \/ since > MaxOfflineDuration THEN since ELSE since + 1


\* how a heartbeat response reads to the server's operator: delivered with
\* status ok, delivered with status kill, or not delivered
ResponseKind(resp) ==
  IF resp.net # "ok" THEN "fail" ELSE IF resp.Status = "kill" THEN "kill" ELSE "ok"

\* sendHeartbeat: the error it returns for a server behaviour
sendHeartbeatErr(resp) ==
  IF postJSON(resp) # Nil THEN Wrap(ErrNetworkError, postJSON(resp).s)
  ELSE IF resp.Status = "kill" THEN ErrBanned
  ELSE Nil

\* sendHeartbeat: the state it leaves
sendHeartbeatState(resp, s) ==
  IF postJSON(resp) = Nil /\ resp.Status = "kill" THEN OnKill(s) ELSE s

(* ---------------------------- update engine ---------------------------- *)
\* sentinels of the update stages and of UpdatePlugin
ErrUpdateFrozen == Err("ErrUpdateFrozen", 0, "")
ErrUpdateDownload == Err("ErrUpdateDownload", 0, "")
ErrUpdateVerify == Err("ErrUpdateVerify", 0, "")
ErrUpdateApply == Err("ErrUpdateApply", 0, "")
ErrUpdateRollback == Err("ErrUpdateRollback", 0, "")
ErrPluginNotFound == Err("ErrPluginNotFound", 0, "")
ErrPluginOTADisabled == Err("ErrPluginOTADisabled", 0, "")
ErrNoPluginUpdate == Err("ErrNoPluginUpdate", 0, "")
ErrPluginNotManaged == Err("ErrPluginNotManaged", 0, "")

\* cfg.ComponentSlug and cfg.ManagedComponents: a backend binary, a frontend
\* directory with a PostUpdate hook, and a backend whose Dir was left empty
ComponentSlug == "backend"
UpdateBackend == "UpdateBackend"
UpdateFrontend == "UpdateFrontend"
ManagedComponents ==
  <<[Slug |-> "worker", Dir |-> <<"opt", "worker">>, Strategy |-> UpdateBackend,
     PostUpdate |-> TRUE],
    [Slug |-> "admin", Dir |-> <<"srv", "admin">>, Strategy |-> UpdateFrontend,
     PostUpdate |-> TRUE],
    [Slug |-> "agent", Dir |-> <<>>, Strategy |-> UpdateBackend,
     PostUpdate |-> FALSE]>>
ManagedSlugs == {ManagedComponents[i].Slug : i \in DOMAIN ManagedComponents}
\* a slug the server knows and this Guard does not
Slugs == {ComponentSlug} \cup ManagedSlugs \cup {"other"}
\* the zero ManagedComponent
NoComponent == [Slug |-> "", Dir |-> <<>>, Strategy |-> UpdateBackend, PostUpdate |-> FALSE]

\* findManagedComponent: the first component with that slug
findManagedComponent(slug) ==
  LET hits == {i \in DOMAIN ManagedComponents : ManagedComponents[i].Slug = slug} IN
  IF hits = {} THEN [mc |-> NoComponent, ok |-> FALSE]
  ELSE [mc |-> ManagedComponents[CHOOSE i \in hits : \A j \in hits : i <= j],
        ok |-> TRUE]

\* versions: what New records, and what the server may announce
Unknown == "unknown"
Versions == {Unknown, "v1", "v2"}

\* mutant: a managed component with the backend strategy is given to
\* updateBackend, which updates the primary component
handleUpdateNotificationToPrimary(ota, u) ==
  IF ~ota.AutoUpdate THEN "none"
  ELSE IF u.Component = ComponentSlug THEN "updateBackend"
  ELSE LET f == findManagedComponent(u.Component) IN
       IF ~f.ok THEN "none"
       ELSE IF f.mc.Strategy = UpdateBackend THEN "updateBackend"
       ELSE "updateFrontend"

\* mutant: OTA.AutoUpdate is not consulted
handleUpdateNotificationAlways(ota, u) ==
  IF u.Component = ComponentSlug THEN "updateBackend"
  ELSE LET f == findManagedComponent(u.Component) IN
       IF ~f.ok THEN "none"
       ELSE IF f.mc.Strategy = UpdateBackend THEN "updateManagedBackend"
       ELSE "updateFrontend"

\* handleUpdateNotification: the goroutine it launches for an update entry
handleUpdateNotification(ota, u) ==
  IF u.Component = ComponentSlug
    THEN IF ota.AutoUpdate THEN "updateBackend" ELSE "none"
  ELSE LET f == findManagedComponent(u.Component) IN
       IF ~f.ok THEN "none"
       ELSE IF ~ota.AutoUpdate THEN "none"
       ELSE IF f.mc.Strategy = UpdateBackend THEN "updateManagedBackend"
       ELSE "updateFrontend"

\* sendHeartbeat, lines 148-160: the goroutine launched for each entry of
\* resp.Updates, "none" where none is launched
dispatch(ota, resp) ==
  [i \in DOMAIN resp.Updates |->
     IF postJSON(resp) # Nil \/ resp.Status = "kill" THEN "none"
     ELSE IF ~(ota.Enabled /\ ~resp.UpdateFrozen) THEN "none"
     ELSE IF ~resp.Updates[i].UpdateAvailable THEN "none"
     ELSE handleUpdateNotification(ota, resp.Updates[i])]

\* hex.EncodeToString
Hex(h) == <<"hex", h>>
\* the artifacts the download URL may serve for a binary
Blobs == {"b1", "b2"}

\* mutant: the signature is checked over the hash string, not its digest
verifySignatureRaw(data, signatureB64) ==
  LET dec == Base64Decode(signatureB64) IN
  IF dec.err THEN FALSE ELSE Ed25519Verify(PublicKey, <<"raw", data>>, dec.sig)

\* verifySignature(data, signatureB64) returns nil
verifySignature(data, signatureB64) ==
  LET dec == Base64Decode(signatureB64) IN
  IF dec.err THEN FALSE ELSE Ed25519Verify(PublicKey, Sha256(data), dec.sig)

(* file paths, as the sequence of their segments below the root *)
\* filepath.Clean of an absolute path: "." and empty segments go, ".." takes
\* the segment before it with it and goes alone at the root
RECURSIVE CleanFrom(_, _)
CleanFrom(done, rest) ==
  IF rest = <<>> THEN done
  ELSE LET s == Head(rest) IN
       IF s \in {"", "."} THEN CleanFrom(done, Tail(rest))
       ELSE IF s = ".."
         THEN CleanFrom(IF done = <<>> THEN <<>> ELSE SubSeq(done, 1, Len(done) - 1),
                        Tail(rest))
       ELSE CleanFrom(Append(done, s), Tail(rest))
Clean(path) == CleanFrom(<<>>, path)
\* filepath.Join(dir, name)
Join(dir, name) == Clean(dir \o name)
\* filepath.Dir
Dir(path) == IF path = <<>> THEN <<>> ELSE SubSeq(path, 1, Len(path) - 1)
\* path is dir or lies below it
Under(path, dir) == Len(path) >= Len(dir) /\ SubSeq(path, 1, Len(dir)) = dir

\* the directory os.MkdirTemp makes, a sibling whose name starts with its
\* name, and strings.HasPrefix on two path segments
TmpDir == <<"tmp", "dg">>
SegHasPrefix(s, prefix) == s = prefix \/ (prefix = "dg" /\ s = "dg-evil")

\* mutant: the separator is not appended to the directory before the test
InsideTmpDirNoSeparator(cleanedTarget) ==
  /\ Len(cleanedTarget) >= Len(TmpDir)
  /\ SubSeq(cleanedTarget, 1, Len(TmpDir) - 1) = SubSeq(TmpDir, 1, Len(TmpDir) - 1)
  /\ SegHasPrefix(cleanedTarget[Len(TmpDir)], TmpDir[Len(TmpDir)])

\* strings.HasPrefix(cleanedTarget, filepath.Clean(tmpDir) + separator)
InsideTmpDir(cleanedTarget) ==
  Len(cleanedTarget) > Len(TmpDir) /\ SubSeq(cleanedTarget, 1, Len(TmpDir)) = TmpDir

(* the file system: the set of its files and directories, each with the   *)
(* origin of its content ("orig": there before any update)                *)
Node(path, kind, src) == [path |-> path, kind |-> kind, src |-> src]
Exists(disk, path) == \E n \in disk : n.path = path
IsDir(disk, path) == path = <<>> \/ \E n \in disk : n.path = path /\ n.kind = "dir"
IsFile(disk, path) == \E n \in disk : n.path = path /\ n.kind = "file"

\* os.MkdirAll(path): directories are made from the top down until a
\* segment is found to be a file
MkdirAll(disk, path, src) ==
  LET blocked == {i \in 1 .. Len(path) : IsFile(disk, SubSeq(path, 1, i))}
      made == {i \in 1 .. Len(path) :
                 /\ \A b \in blocked : i < b
                 /\ ~Exists(disk, SubSeq(path, 1, i))}
  IN disk \cup {Node(SubSeq(path, 1, i), "dir", src) : i \in made}

\* os.OpenFile(path, O_CREATE|O_WRONLY) succeeds
CanOpenFile(disk, path) == IsDir(disk, Dir(path)) /\ ~IsDir(disk, path)

\* os.RemoveAll(path)
RemoveAll(disk, path) == {n \in disk : ~Under(n.path, path)}
\* os.Rename(from, to) of a directory onto a path that does not exist
Rename(disk, from, to) ==
  {n \in disk : ~Under(n.path, from)}
    \cup {[n EXCEPT !.path = to \o SubSeq(n.path, Len(from) + 1, Len(n.path))] :
            n \in {m \in disk : Under(m.path, from)}}

\* tar entries: a name and a type flag ("corrupt": tr.Next returns an error)
TarEntry(name, flag) == [Name |-> name, Typeflag |-> flag]
\* the streams the download URL may serve for a frontend bundle
Archives ==
  [site |-> [gzip |-> TRUE,
             entries |-> <<TarEntry(<<"index.html">>, "reg"),
                           TarEntry(<<"assets">>, "dir"),
                           TarEntry(<<"assets", "app.js">>, "reg")>>],
   evil |-> [gzip |-> TRUE,
             entries |-> <<TarEntry(<<"..", "..", "etc", "passwd">>, "reg"),
                           TarEntry(<<"..", "dg-evil", "x">>, "reg"),
                           TarEntry(<<"a", "..", "..">>, "dir"),
                           TarEntry(<<".">>, "dir"),
                           TarEntry(<<"", "index.html">>, "reg"),
                           TarEntry(<<"link">>, "symlink")>>],
   clash |-> [gzip |-> TRUE,
              entries |-> <<TarEntry(<<"a">>, "reg"), TarEntry(<<"a">>, "dir")>>],
   under |-> [gzip |-> TRUE,
              entries |-> <<TarEntry(<<"a">>, "dir"), TarEntry(<<"a">>, "reg")>>],
   torn |-> [gzip |-> TRUE,
             entries |-> <<TarEntry(<<"index.html">>, "reg"),
                           TarEntry(<<>>, "corrupt")>>],
   junk |-> [gzip |-> FALSE, entries |-> <<>>]]
ArchiveNames == DOMAIN Archives

\* lines 382-412: one tar entry is extracted (io: the write goes through);
\* wrote is the target the entry made the loop touch
extractEntry(disk, hdr, src, io) ==
  LET target == Join(TmpDir, hdr.Name) IN
  IF ~InsideTmpDir(Clean(target)) THEN [disk |-> disk, err |-> FALSE, wrote |-> {}]
  ELSE IF hdr.Typeflag = "dir"
    THEN [disk |-> MkdirAll(disk, target, src), err |-> FALSE, wrote |-> {target}]
  ELSE IF hdr.Typeflag = "reg"
    THEN LET d1 == MkdirAll(disk, Dir(target), src) IN
         IF ~CanOpenFile(d1, target) THEN [disk |-> d1, err |-> TRUE, wrote |-> {target}]
         ELSE [disk |-> {n \in d1 : n.path # target} \cup {Node(target, "file", src)},
               err |-> ~io, wrote |-> {target}]
  ELSE [disk |-> disk, err |-> FALSE, wrote |-> {}]

\* the recorded versions: g.version and g.managedVersions
Vers(v, mv) == [version |-> v, managed |-> mv]
\* mutant: the version map is left as it was
setManagedVersionNoop(mv, slug, v) == mv
\* g.managedVersions[slug] = v
setManagedVersion(mv, slug, v) == [mv EXCEPT ![slug] = v]

\* the update callbacks of cfg.OTA, as the application sees them called
CbFailure(c, e) ==
  [cb |-> "OnUpdateFailure", component |-> c, old |-> "", new |-> "",
   success |-> FALSE, err |-> e]
CbResult(c, old, new, ok, e) ==
  [cb |-> "OnUpdateResult", component |-> c, old |-> old, new |-> new,
   success |-> ok, err |-> e]

\* how a stage of updateBinaryComponent (and the checks of updateBackend and
\* updateManagedBackend before it) reports its failure
binaryFailure(c, old, new, sentinel, err) ==
  <<CbFailure(c, Wrap(sentinel, err.s)), CbResult(c, old, new, FALSE, err)>>
\* how a stage of updateFrontend reports its failure
frontendFailure(c, sentinel, err) == <<CbFailure(c, Wrap(sentinel, err.s))>>

\* mutant: the digests are not compared
hashMatchesAlways(actual, declared) == TRUE
\* actualSHA256 == sha256Hash, actualHash == resp.SHA256
hashMatches(actual, declared) == actual = declared

\* what POST /api/v1/update/download answers: the declared digest is that of
\* one of the artifacts, the signature is by either key over the digest of
\* the declared hash string, of the other one, or over the string itself
DeclaredHashes == {Hex(Sha256(b)) : b \in Blobs \cup {"site", "evil", "clash"}}
MetaSignatures(h) ==
  {[b64 |-> TRUE, signer |-> k, msg |-> Sha256(h)] : k \in Signers}
    \cup {[b64 |-> TRUE, signer |-> PublicKey, msg |-> <<"raw", h>>],
          [b64 |-> TRUE, signer |-> PublicKey, msg |-> Sha256(Hex(Sha256("b2")))],
          AnySignature}
NoMeta == [net |-> "transport", Error |-> "", SHA256 |-> Hex(Sha256("b1")),
           Signature |-> AnySignature]
BinaryMetas ==
  {[net |-> "ok", Error |-> "", SHA256 |-> Hex(Sha256(b)), Signature |-> sg] :
     b \in {"b1"}, sg \in MetaSignatures(Hex(Sha256("b1")))}
    \cup {[NoMeta EXCEPT !.net = n] : n \in {"transport", "status"}}
    \cup {[NoMeta EXCEPT !.net = "ok", !.Error = "version_not_found"]}
FrontendMetas ==
  {[net |-> "ok", Error |-> "", SHA256 |-> Hex(Sha256(b)), Signature |-> AnySignature] :
     b \in {"site", "evil", "clash"}}
    \cup {[NoMeta EXCEPT !.net = "status"]}
    \cup {[NoMeta EXCEPT !.net = "ok", !.Error = "version_not_found"]}
\* requestDownloadMeta: the error it returns
requestDownloadMeta(meta) ==
  IF postJSON(meta) # Nil THEN postJSON(meta)
  ELSE IF meta.Error # "" THEN Err("server error", 0, meta.Error)
  ELSE Nil
\* what GET of the download URL does: a body, no 200 response, or a body
\* that breaks off while it is copied to the temporary file ("copy")
Downloads(bodies) ==
  [net : {"ok"}, body : bodies] \cup [net : {"transport", "status", "copy"}, body : {""}]

\* mutant: the error of update.Apply is dropped
applyBackendBinaryWithSelfupdateNoErr(outcome) == Nil
\* applyBackendBinaryWithSelfupdate: update.Apply replaces the target
\* ("ok"), fails and restores it ("failed"), or fails to restore it too
applyBackendBinaryWithSelfupdate(outcome) ==
  CASE outcome = "ok" -> Nil
    [] outcome = "failed" -> Err("apply", 0, "")
    [] OTHER -> Wrap(ErrUpdateRollback, "rollback also failed")
ApplyOutcomes == {"ok", "failed", "rollback failed"}

\* mc.Dir + ".bak"
Bak(seg) == IF seg = "admin" THEN "admin.bak" ELSE "worker.bak"
BackupDir(dir) == SubSeq(dir, 1, Len(dir) - 1) \o <<Bak(dir[Len(dir)])>>

\* mutant: a failing post-update hook puts the old directory back
afterPostUpdateRollback(hookErr, dsk, mv, dir, slug, old) ==
  IF hookErr THEN [disk |-> Rename(RemoveAll(dsk, dir), BackupDir(dir), dir),
                   managed |-> setManagedVersion(mv, slug, old)]
  ELSE [disk |-> dsk, managed |-> mv]
\* lines 472-478: the error of mc.PostUpdate is discarded
afterPostUpdate(hookErr, dsk, mv, dir, slug, old) == [disk |-> dsk, managed |-> mv]


(* ------------------------------- state --------------------------------- *)
VARIABLES
  state,      \* sm.state
  cache,      \* the license.cache file
  appPc,      \* where the application's call of Guard.Start stands
  gCancel,    \* g.cancel: the context it cancels, 0 for nil
  cancelled,  \* cancelled[l]: the context of loop l is done
  nStarts,    \* calls of Guard.Start so far
  startRes,   \* the last call of Guard.Start: what verifyLicense returned
              \* to it (verr), what it returned (ret), and whether the call
              \* got a payload whose signature verifies (signed)
  verified,   \* some call of Guard.Start got nil from verifyLicense
  hbPc,       \* hbPc[l]: where heartbeat goroutine l stands
  hbTimer,    \* hbTimer[l]: ticks left of the sleep of loop l
  graceStart, \* graceStart[l]: ticks since the time stored in it, or ZeroTime
  hbErr,      \* hbErr[l]: the error sendHeartbeat returned to loop l
  hbLast,     \* hbLast[l]: kind of the last response loop l received
  hbSeen,     \* kinds of all heartbeat responses received so far
  smPc,       \* smPc[c]: where caller c of the state machine stands
  smEv,       \* smEv[c]: the method caller c is in
  smMu,       \* sm.mu: the writer holding it (0 for none) and its readers
  killFrom,   \* the state in which OnKill first ran, "none" before
  smLast,     \* the last method a caller completed
  smFrom,     \* the state that method found, "none" before any
  checked,    \* the last Guard.Check: the state it read and what it returned
  vl,         \* the last direct verifyLicense call: inputs and outputs
  ota,        \* cfg.OTA.Enabled and cfg.OTA.AutoUpdate
  version,    \* g.version
  managedVersions, \* g.managedVersions
  updateMu,   \* g.updateMu: the attempt holding it, 0 for none
  up,         \* up[p]: update attempt p, a call of updateBackend,
              \* updateManagedBackend or updateFrontend
  disk,       \* the directories and files of the file system
  bin,        \* bin[slug]: the artifact at the target path of a binary
  nHb,        \* heartbeat responses processed by sendHeartbeat
  hbu,        \* the last of them and the goroutines launched for its entries
  nPlug,      \* calls of UpdatePlugin
  plug,       \* the last call of UpdatePlugin
  gMu,        \* g.mu: the writer holding it ("" for none) and its readers
  wr,         \* wr[w]: where writer w of the version state stands
  rq,         \* the heartbeat request sendHeartbeat is building
  lr          \* the io.LimitedReader of a download and what went through it

guardVars == <<appPc, gCancel, cancelled, nStarts, startRes, verified, hbPc, hbTimer,
               graceStart, hbErr, hbLast, hbSeen>>
smVars == <<smPc, smEv, smMu, killFrom, smLast, smFrom, checked>>
updVars == <<ota, version, managedVersions, updateMu, up, disk, bin, nHb, hbu,
             nPlug, plug>>
\* everything but the state machine's state and the update engine
\* g.mu, its writers and the builder of the heartbeat request; the reader
\* of a download body
snapVars == <<gMu, wr, rq, lr>>
lifeVars == <<cache, guardVars, smVars, vl, snapVars>>
vars == <<state, cache, guardVars, smVars, vl, snapVars, updVars>>

\* the values every specification starts from (New and newStateMachine)
InitGuard ==
  /\ state = StateInit
  /\ appPc = "idle"
  /\ gCancel = 0
  /\ cancelled = [l \in Loops |-> FALSE]
  /\ startRes = [verr |-> NoCall, ret |-> NoCall, signed |-> FALSE]
  /\ verified = FALSE
  /\ hbPc = [l \in Loops |-> "none"]
  /\ hbTimer = [l \in Loops |-> 0]
  /\ graceStart = [l \in Loops |-> ZeroTime]
  /\ hbErr = [l \in Loops |-> Nil]
  /\ hbLast = [l \in Loops |-> "none"]
  /\ hbSeen = {}

InitSM ==
  /\ smPc = [c \in Callers |-> "idle"]
  /\ smEv = [c \in Callers |-> "none"]
  /\ smMu = [w |-> 0, r |-> {}]
  /\ killFrom = "none"
  /\ smLast = "none"
  /\ smFrom = "none"
  /\ checked = [at |-> "none", err |-> NoCall]

\* no update attempt in slot p
NoAttempt ==
  [pc |-> "none", fn |-> "none", slug |-> "", latest |-> "", from |-> "none",
   meta |-> NoMeta, body |-> "", idx |-> 0, stages |-> {}, cb |-> <<>>,
   fail |-> "", old |-> "", snap |-> Vers("", <<>>), endv |-> Vers("", <<>>),
   wrote |-> {}, swap |-> "none", hook |-> "none", applied |-> FALSE,
   tmpPath |-> "", notified |-> ""]
\* no entry of the catalog
NoPluginInfo ==
  [Slug |-> "", OTAEnabled |-> FALSE, UpdateAvailable |-> FALSE, CanUpdate |-> FALSE,
   LatestVersion |-> "<nil>"]
\* no call of UpdatePlugin yet: the slug asked for, what the catalog said
\* (frozen, listed, entry, latest), the recorded version of the component
\* at the call (had), the attempt started (proc), the error returned (ret)
\* and the version read back before returning (read)
NoPlugin ==
  [pc |-> "idle", slug |-> "", frozen |-> FALSE, listed |-> FALSE,
   entry |-> NoPluginInfo, latest |-> "", had |-> "", proc |-> 0, ret |-> NoCall,
   read |-> ""]
\* no heartbeat response processed yet
NoDispatch ==
  [resp |-> [net |-> "transport", Status |-> "ok", UpdateFrozen |-> FALSE,
             Updates |-> <<>>],
   launched |-> <<>>]
\* the file system before any update: the live directory of the frontend
\* component, and files that are none of the Guard's business
InitDisk ==
  {Node(<<"tmp">>, "dir", "orig"), Node(<<"srv">>, "dir", "orig"),
   Node(<<"srv", "admin">>, "dir", "orig"),
   Node(<<"srv", "admin", "old.html">>, "file", "orig"),
   Node(<<"etc">>, "dir", "orig"), Node(<<"etc", "passwd">>, "file", "orig")}
\* g.mu is free, no call of a setter is in progress, and sendHeartbeat is
\* not building a request: components is the list of slug and version the
\* request carries, sent the list of the last request posted, held the
\* pairs of g.version and g.managedVersions that existed since the RLock
NoWrite == [pc |-> "idle", fn |-> "none", slug |-> "", v |-> "", n |-> 0]
NoRequest ==
  [pc |-> "idle", currentVersion |-> "", managedVersionsSnapshot |-> <<>>,
   components |-> <<>>, sent |-> <<>>, held |-> {}]
\* no body is being read: the bytes the server has still to send (body),
\* the limit given to io.LimitReader (max) and what is left of it (N), the
\* bytes read from the body, hashed, and written to the temporary file or
\* fed to the decompressor (out)
NoCopy ==
  [pc |-> "idle", fn |-> "none", body |-> 0, max |-> 0, N |-> 0, read |-> 0,
   hashed |-> 0, out |-> 0]
InitSnap ==
  /\ gMu = [w |-> 0, r |-> {}]
  /\ wr = [w \in Writers |-> NoWrite]
  /\ rq = NoRequest
  /\ lr = NoCopy
\* New: versions are "unknown", nothing is being updated
InitUpd ==
  /\ version = Unknown
  /\ managedVersions = [c \in ManagedSlugs |-> Unknown]
  /\ updateMu = 0
  /\ up = [p \in Procs |-> NoAttempt]
  /\ disk = InitDisk
  /\ bin = [c \in {ComponentSlug} \cup ManagedSlugs |-> "b0"]
  /\ nHb = 0
  /\ hbu = NoDispatch
  /\ nPlug = 0
  /\ plug = NoPlugin
  /\ InitSnap
\* a Guard of the other specifications has OTA switched off
InitNoOTA == InitUpd /\ ota = [Enabled |-> FALSE, AutoUpdate |-> FALSE]

\* no direct call of verifyLicense yet
NoVerify ==
  [called |-> FALSE, file |-> NoFile, wrote |-> FALSE,
   resp |-> CHOOSE r \in VerifyResponses : r.net = "transport" /\ r.Error = "",
   out |-> [err |-> NoCall, calls |-> 0, file |-> NoFile]]

(* ----------------------- Guard.Start, Guard.Stop ----------------------- *)
\* the verification answers the server gives a Guard in Spec
StartResponses ==
  {r \in VerifyResponses :
     /\ r.PublicData = "d1"
     /\ r.Signature.b64 /\ r.Signature.signer = PublicKey
     /\ r.Signature.msg \in {Sha256("d1"), <<"raw", "d1">>}
     /\ r.Error = ""}
    \cup {r \in VerifyResponses : r.net = "ok" /\ r.Error = "license_expired"}
    \cup {r \in VerifyResponses : r.net = "transport" /\ r.Error = ""}

\* the license.cache files a Guard in Spec may find when it is constructed
StartCaches ==
  {NoFile, Malformed,
   Entry(LicenseKey, "d1", [b64 |-> TRUE, signer |-> "K1", msg |-> Sha256("d1")], "t0"),
   Entry(LicenseKey, "d1", [b64 |-> TRUE, signer |-> "K2", msg |-> Sha256("d1")], "t0")}

\* a loop slot whose goroutine does not exist (any more)
FreeLoops == {l \in Loops : hbPc[l] \in {"none", "done"}}

\* Start, lines 88-89: a fresh cancellable context, stored in g.cancel
StartBegin ==
  /\ appPc = "idle"
  /\ nStarts < MaxStarts
  /\ FreeLoops # {}
  /\ LET l == CHOOSE k \in FreeLoops : \A j \in FreeLoops : k <= j IN
     /\ gCancel' = l
     /\ cancelled' = [cancelled EXCEPT ![l] = FALSE]
     /\ hbPc' = [hbPc EXCEPT ![l] = "none"]
     /\ hbTimer' = [hbTimer EXCEPT ![l] = 0]
     /\ graceStart' = [graceStart EXCEPT ![l] = ZeroTime]
     /\ hbErr' = [hbErr EXCEPT ![l] = Nil]
     /\ hbLast' = [hbLast EXCEPT ![l] = "none"]
  /\ appPc' = "verify"
  /\ nStarts' = nStarts + 1
  /\ startRes' = [verr |-> Pending, ret |-> Pending, signed |-> FALSE]
  /\ UNCHANGED <<state, cache, verified, hbSeen, smVars, vl, snapVars, updVars>>

\* the signature of a verification answer verifies under g.publicKey, as
\* the signature of a cache entry is verified in step 1 of verifyLicense
ResponseVerifies(resp) ==
  LET dec == Base64Decode(resp.Signature) IN
  /\ ~dec.err
  /\ Ed25519Verify(PublicKey, Sha256(resp.PublicData), dec.sig)

\* a call of verifyLicense on the cache file and the server's behaviour got
\* hold of a payload whose signature verifies: the cache entry, or, when the
\* cache was of no use, the answer of POST /api/v1/verify
SignedPayload(file, resp) ==
  \/ CacheHit(file)
  \/ /\ postJSON(resp) = Nil
     /\ resp.Error = ""
     /\ ResponseVerifies(resp)

\* mutant: the return is missing
StartAfterVerifyNoReturn(err) == "verified"

\* Start, lines 91-94: where Start goes on the result of verifyLicense
StartAfterVerify(err) == IF err # Nil THEN "idle" ELSE "verified"

\* Start, lines 91-94: verifyLicense; on an error cancel() and return it
StartVerify(resp, wrote) ==
  /\ appPc = "verify"
  /\ LET out == verifyLicense(cache, resp, wrote) IN
     /\ cache' = out.file
     /\ appPc' = StartAfterVerify(out.err)
     /\ verified' = (verified \/ out.err = Nil)
     /\ IF StartAfterVerify(out.err) = "idle"
          THEN /\ cancelled' = [cancelled EXCEPT ![gCancel] = TRUE]
               /\ startRes' = [verr |-> out.err,
                               ret |-> Wrap(out.err, "license verification failed"),
                               signed |-> SignedPayload(cache, resp)]
          ELSE /\ startRes' = [verr |-> out.err, ret |-> Pending,
                               signed |-> SignedPayload(cache, resp)]
               /\ UNCHANGED cancelled
  /\ UNCHANGED <<state, gCancel, nStarts, hbPc, hbTimer, graceStart, hbErr,
                 hbLast, hbSeen, smVars, vl, snapVars, updVars>>

\* Start, line 95
StartVerified ==
  /\ appPc = "verified"
  /\ state' = OnVerifySuccess(state)
  /\ appPc' = "spawn"
  /\ UNCHANGED <<cache, gCancel, cancelled, nStarts, startRes, verified, hbPc, hbTimer,
                 graceStart, hbErr, hbLast, hbSeen, smVars, vl, snapVars, updVars>>

\* Start, lines 97-99: startHeartbeat launches the goroutine, which draws its
\* first jitter and sleeps; Start returns nil
StartSpawn(r) ==
  /\ appPc = "spawn"
  /\ hbPc' = [hbPc EXCEPT ![gCancel] = "sleep"]
  /\ hbTimer' = [hbTimer EXCEPT ![gCancel] = Jitter(r)]
  /\ graceStart' = [graceStart EXCEPT ![gCancel] = ZeroTime]
  /\ startRes' = [startRes EXCEPT !.ret = Nil]
  /\ appPc' = "idle"
  /\ UNCHANGED <<state, cache, gCancel, cancelled, nStarts, verified, hbErr,
                 hbLast, hbSeen, smVars, vl, snapVars, updVars>>

\* Stop: cancel the context g.cancel holds, from any goroutine at any time
Stop ==
  /\ gCancel # 0
  /\ cancelled' = [cancelled EXCEPT ![gCancel] = TRUE]
  /\ UNCHANGED <<state, cache, appPc, gCancel, nStarts, startRes, verified, hbPc, hbTimer,
                 graceStart, hbErr, hbLast, hbSeen, smVars, vl, snapVars, updVars>>

\* the context handed to Start is cancelled by its owner (a deadline, a signal)
ParentDone(l) ==
  /\ hbPc[l] \notin {"none", "done"}
  /\ ~cancelled[l]
  /\ cancelled' = [cancelled EXCEPT ![l] = TRUE]
  /\ UNCHANGED <<state, cache, appPc, gCancel, nStarts, startRes, verified, hbPc, hbTimer,
                 graceStart, hbErr, hbLast, hbSeen, smVars, vl, snapVars, updVars>>

(* --------------------------- heartbeat loop ---------------------------- *)
\* mutant: a goroutine that has returned wakes again
HBWakeAfterExit(l) ==
  /\ hbPc[l] \in {"sleep", "done"}
  /\ hbTimer[l] = 0
  /\ hbPc' = [hbPc EXCEPT ![l] = "inflight"]
  /\ UNCHANGED <<state, cache, appPc, gCancel, cancelled, nStarts, startRes, verified,
                 hbTimer, graceStart, hbErr, hbLast, hbSeen, smVars, vl, snapVars, updVars>>

\* the select of lines 80-84, timer case: the sleep is over, sendHeartbeat
\* posts its request
HBWake(l) ==
  /\ hbPc[l] = "sleep"
  /\ hbTimer[l] = 0
  /\ hbPc' = [hbPc EXCEPT ![l] = "inflight"]
  /\ UNCHANGED <<state, cache, appPc, gCancel, cancelled, nStarts, startRes, verified,
                 hbTimer, graceStart, hbErr, hbLast, hbSeen, smVars, vl, snapVars, updVars>>

\* the select of lines 80-84, ctx.Done() case
HBCancel(l) ==
  /\ hbPc[l] = "sleep"
  /\ cancelled[l]
  /\ hbPc' = [hbPc EXCEPT ![l] = "done"]
  /\ UNCHANGED <<state, cache, appPc, gCancel, cancelled, nStarts, startRes, verified,
                 hbTimer, graceStart, hbErr, hbLast, hbSeen, smVars, vl, snapVars, updVars>>

\* sendHeartbeat from the return of postJSON to its own return
HBRecv(l, resp) ==
  /\ hbPc[l] = "inflight"
  /\ state' = sendHeartbeatState(resp, state)
  /\ hbErr' = [hbErr EXCEPT ![l] = sendHeartbeatErr(resp)]
  /\ hbLast' = [hbLast EXCEPT ![l] = ResponseKind(resp)]
  /\ hbSeen' = hbSeen \cup {ResponseKind(resp)}
  /\ hbPc' = [hbPc EXCEPT ![l] = "handle"]
  /\ UNCHANGED <<cache, appPc, gCancel, cancelled, nStarts, startRes, verified, hbTimer,
                 graceStart, smVars, vl, snapVars, updVars>>

\* lines 87-99: what the loop does with the error sendHeartbeat returned
HBHandle(l, r) ==
  /\ hbPc[l] = "handle"
  /\ hbErr' = [hbErr EXCEPT ![l] = Nil]
  /\ IF hbErr[l] = Nil
       THEN /\ state' = OnHeartbeatOK(state)
            /\ graceStart' = [graceStart EXCEPT ![l] = ZeroTime]
            /\ hbPc' = [hbPc EXCEPT ![l] = "sleep"]
            /\ hbTimer' = [hbTimer EXCEPT ![l] = Jitter(r)]
       ELSE IF isFatalError(hbErr[l])
         THEN /\ state' = OnKill(state)
              /\ hbPc' = [hbPc EXCEPT ![l] = "done"]
              /\ UNCHANGED <<graceStart, hbTimer>>
         ELSE /\ state' = OnHeartbeatFail(state)
              /\ graceStart' = [graceStart EXCEPT ![l] = markGraceStart(@)]
              /\ hbPc' = [hbPc EXCEPT ![l] = "graceCheck"]
              /\ UNCHANGED hbTimer
  /\ UNCHANGED <<cache, appPc, gCancel, cancelled, nStarts, startRes, verified, hbLast,
                 hbSeen, smVars, vl, snapVars, updVars>>

\* lines 104-108: lock and stop once the grace period is over, else loop
HBGraceCheck(l, r) ==
  /\ hbPc[l] = "graceCheck"
  /\ IF GraceExpired(graceStart[l])
       THEN /\ state' = OnGracePeriodExpired(state)
            /\ hbPc' = [hbPc EXCEPT ![l] = "done"]
            /\ UNCHANGED hbTimer
       ELSE /\ hbPc' = [hbPc EXCEPT ![l] = "sleep"]
            /\ hbTimer' = [hbTimer EXCEPT ![l] = Jitter(r)]
            /\ UNCHANGED state
  /\ UNCHANGED <<cache, appPc, gCancel, cancelled, nStarts, startRes, verified,
                 graceStart, hbErr, hbLast, hbSeen, smVars, vl, snapVars, updVars>>

\* one tick of time passes for every goroutine that is alive
Tick ==
  /\ hbTimer' = [l \in Loops |-> IF hbTimer[l] > 0 THEN hbTimer[l] - 1 ELSE 0]
  /\ graceStart' = [l \in Loops |->
                      IF hbPc[l] \in {"none", "done"} THEN graceStart[l]
                      ELSE Age(graceStart[l])]
  /\ UNCHANGED <<state, cache, appPc, gCancel, cancelled, nStarts, startRes, verified,
                 hbPc, hbErr, hbLast, hbSeen, smVars, vl, snapVars, updVars>>

Init ==
  /\ InitGuard
  /\ nStarts = 0
  /\ InitSM
  /\ cache \in StartCaches
  /\ vl = NoVerify
  /\ InitNoOTA

Next ==
  \/ StartBegin
  \/ \E resp \in StartResponses, wrote \in BOOLEAN : StartVerify(resp, wrote)
  \/ StartVerified
  \/ \E r \in 0 .. RandSteps - 1 : StartSpawn(r)
  \/ Stop
  \/ \E l \in Loops : ParentDone(l)
  \/ \E l \in Loops : HBWake(l)
  \/ \E l \in Loops : HBCancel(l)
  \/ \E l \in Loops, resp \in HeartbeatResponses : HBRecv(l, resp)
  \/ \E l \in Loops, r \in 0 .. RandSteps - 1 : HBHandle(l, r)
  \/ \E l \in Loops, r \in 0 .. RandSteps - 1 : HBGraceCheck(l, r)
  \/ Tick

Spec == Init /\ [][Next]_vars

\* what heartbeat goroutine l can do next; at most one disjunct is enabled
\* unless the loop sleeps with its timer expired and its context cancelled
LoopStep(l) ==
  \/ HBWake(l)
  \/ HBCancel(l)
  \/ \E resp \in HeartbeatResponses : HBRecv(l, resp)
  \/ \E r \in 0 .. RandSteps - 1 : HBHandle(l, r)
  \/ \E r \in 0 .. RandSteps - 1 : HBGraceCheck(l, r)

\* what a call of Start that has begun does next
StartStep ==
  \/ \E resp \in StartResponses, wrote \in BOOLEAN : StartVerify(resp, wrote)
  \/ StartVerified
  \/ \E r \in 0 .. RandSteps - 1 : StartSpawn(r)

\* The goroutine scheduler runs every runnable goroutine, time passes, an
\* HTTP request ends (the client has a 30 s timeout), and a call of Start
\* that has begun runs to its return.
Fairness ==
  /\ WF_vars(Tick)
  /\ WF_vars(StartStep)
  /\ \A l \in Loops : WF_vars(LoopStep(l))

\* the application has one call of Start left
InitFair ==
  /\ InitGuard
  /\ nStarts = MaxStarts - 1
  /\ InitSM
  /\ cache \in StartCaches
  /\ vl = NoVerify
  /\ InitNoOTA

SpecFair == InitFair /\ [][Next]_vars /\ Fairness

(* ---------------- the state machine and its callers -------------------- *)
\* a caller enters one of the five transition methods, or Guard.Check
SMCall(c, e) ==
  /\ smPc[c] = "idle"
  /\ smPc' = [smPc EXCEPT ![c] = "wait"]
  /\ smEv' = [smEv EXCEPT ![c] = e]
  /\ UNCHANGED <<state, cache, guardVars, smMu, killFrom, smLast, smFrom, checked, vl, snapVars, updVars>>

\* sm.mu.Lock() of a transition method
SMLock(c) ==
  /\ smPc[c] = "wait" /\ smEv[c] \in Events
  /\ smMu.w = 0 /\ smMu.r = {}
  /\ smMu' = [smMu EXCEPT !.w = c]
  /\ smPc' = [smPc EXCEPT ![c] = "held"]
  /\ UNCHANGED <<state, cache, guardVars, smEv, killFrom, smLast, smFrom, checked, vl, snapVars,
                 updVars>>

\* sm.mu.RLock() of Current, called by Guard.Check
SMRLock(c) ==
  /\ smPc[c] = "wait" /\ smEv[c] = "Check"
  /\ smMu.w = 0
  /\ smMu' = [smMu EXCEPT !.r = @ \cup {c}]
  /\ smPc' = [smPc EXCEPT ![c] = "held"]
  /\ UNCHANGED <<state, cache, guardVars, smEv, killFrom, smLast, smFrom, checked, vl, snapVars,
                 updVars>>

\* the body of a transition method and its deferred Unlock
SMTransition(c) ==
  /\ smPc[c] = "held" /\ smEv[c] \in Events
  /\ state' = Apply(smEv[c], state)
  /\ killFrom' = IF smEv[c] = "OnKill" /\ killFrom = "none" THEN state ELSE killFrom
  /\ smLast' = smEv[c]
  /\ smFrom' = state
  /\ smMu' = [smMu EXCEPT !.w = 0]
  /\ smPc' = [smPc EXCEPT ![c] = "idle"]
  /\ UNCHANGED <<cache, guardVars, smEv, checked, vl, snapVars, updVars>>

\* Current reads the state and unlocks; Check maps it to its result
SMCheck(c) ==
  /\ smPc[c] = "held" /\ smEv[c] = "Check"
  /\ checked' = [at |-> state, err |-> Check(state)]
  /\ smLast' = "Check"
  /\ smFrom' = state
  /\ smMu' = [smMu EXCEPT !.r = @ \ {c}]
  /\ smPc' = [smPc EXCEPT ![c] = "idle"]
  /\ UNCHANGED <<state, cache, guardVars, smEv, killFrom, vl, snapVars, updVars>>

InitStateMachine ==
  /\ InitGuard
  /\ nStarts = 0
  /\ InitSM
  /\ cache = NoFile
  /\ vl = NoVerify
  /\ InitNoOTA

NextStateMachine ==
  \/ \E c \in Callers, e \in Events \cup {"Check"} : SMCall(c, e)
  \/ \E c \in Callers : SMLock(c)
  \/ \E c \in Callers : SMRLock(c)
  \/ \E c \in Callers : SMTransition(c)
  \/ \E c \in Callers : SMCheck(c)

\* a Guard's state machine driven by concurrent callers of its methods
SpecStateMachine == InitStateMachine /\ [][NextStateMachine]_vars

(* ------------------- verifyLicense called on its own ------------------- *)
\* g.verifyLicense() on whatever cache file is there, against a server that
\* answers with resp, on a file system that takes the cache write or not
VerifyLicenseCall(resp, wrote) ==
  /\ LET out == verifyLicense(cache, resp, wrote) IN
     /\ vl' = [called |-> TRUE, file |-> cache, wrote |-> wrote, resp |-> resp,
               out |-> out]
     /\ cache' = out.file
  /\ UNCHANGED <<state, guardVars, smVars, snapVars, updVars>>

InitLicense ==
  /\ InitGuard
  /\ nStarts = 0
  /\ InitSM
  /\ cache \in CacheFiles
  /\ vl = NoVerify
  /\ InitNoOTA

NextLicense == \E resp \in VerifyResponses, wrote \in BOOLEAN : VerifyLicenseCall(resp, wrote)

SpecLicense == InitLicense /\ [][NextLicense]_vars

(* ------------------- the update engine of a Guard ---------------------- *)
\* the attempt slots no goroutine has been given yet
FreeProcs == {p \in Procs : up[p].pc = "none"}
\* the k-th smallest free slot
NthFree(k) == CHOOSE p \in FreeProcs : Cardinality({q \in FreeProcs : q < p}) = k - 1

\* a call of fn for component slug and version latest enters its body;
\* notified keeps u.Component, the component the update was announced for
NewAttempt(fn, slug, latest, from) ==
  [NoAttempt EXCEPT !.pc = IF fn = "updateFrontend" THEN "wait" ELSE "pre",
                    !.fn = fn,
                    !.slug = IF fn = "updateBackend" THEN ComponentSlug ELSE slug,
                    !.latest = latest, !.from = from, !.notified = slug]

\* mutant: the temporary file is left behind
deferRemoveNone(tmpPath) == tmpPath
\* defer os.Remove(tmpPath), run when updateBinaryComponent returns: the
\* temporary file of the attempt ("there") is deleted
deferRemove(tmpPath) == IF tmpPath = "there" THEN "removed" ELSE tmpPath

\* attempt a returns after failing at stage, having made the calls cbs
Failed(a, stage, cbs, v) ==
  [a EXCEPT !.pc = "done", !.fail = stage, !.stages = @ \cup {stage},
            !.cb = @ \o cbs, !.endv = v, !.tmpPath = deferRemove(@)]

\* SetVersion and SetManagedVersion, called by the application before it
\* starts anything that updates
SetVersion(v) ==
  /\ nHb = 0 /\ nPlug = 0 /\ version = Unknown
  /\ version' = v
  /\ UNCHANGED <<state, lifeVars, ota, managedVersions, updateMu, up, disk, bin, nHb,
                 hbu, nPlug, plug>>

SetManagedVersion(slug, v) ==
  /\ nHb = 0 /\ nPlug = 0 /\ managedVersions[slug] = Unknown
  /\ managedVersions' = [managedVersions EXCEPT ![slug] = v]
  /\ UNCHANGED <<state, lifeVars, ota, version, updateMu, up, disk, bin, nHb, hbu,
                 nPlug, plug>>

\* update entries of a heartbeat response, and the responses of the server
UpdateInfo(c, avail) == [Component |-> c, Latest |-> "v2", UpdateAvailable |-> avail]
UpdateLists ==
  {<<>>} \cup {<<UpdateInfo(c, TRUE)>> : c \in Slugs}
    \cup {<<UpdateInfo(ComponentSlug, FALSE)>>,
          <<UpdateInfo(ComponentSlug, TRUE), UpdateInfo("admin", TRUE)>>,
          <<UpdateInfo("admin", TRUE), UpdateInfo("worker", TRUE)>>,
          <<UpdateInfo("other", TRUE), UpdateInfo("admin", FALSE)>>}
UpdateHeartbeats ==
  [net : {"ok"}, Status : {"ok"}, UpdateFrozen : BOOLEAN, Updates : UpdateLists]
    \cup [net : {"ok"}, Status : {"kill"}, UpdateFrozen : {FALSE}, Updates : UpdateLists]
    \cup [net : {"transport"}, Status : {"ok"}, UpdateFrozen : {FALSE},
          Updates : UpdateLists]

\* sendHeartbeat from the return of postJSON to its own return
SendHeartbeat(resp) ==
  /\ nHb < MaxHeartbeats
  /\ state \in {StateActive, StateGrace}
  /\ LET d == dispatch(ota, resp)
         go == {i \in DOMAIN d : d[i] # "none"}
         rank(i) == Cardinality({j \in go : j <= i})
     IN /\ Cardinality(FreeProcs) >= Cardinality(go)
        /\ up' = [p \in Procs |->
                    IF \E i \in go : p = NthFree(rank(i))
                      THEN LET i == CHOOSE j \in go : p = NthFree(rank(j)) IN
                           NewAttempt(d[i], resp.Updates[i].Component,
                                      resp.Updates[i].Latest, "heartbeat")
                      ELSE up[p]]
        /\ hbu' = [resp |-> resp, launched |-> d]
  /\ state' = sendHeartbeatState(resp, state)
  /\ nHb' = nHb + 1
  /\ UNCHANGED <<lifeVars, ota, version, managedVersions, updateMu, disk, bin, nPlug,
                 plug>>

\* updateBackend before updateBinaryComponent: os.Executable();
\* updateManagedBackend before it: the target path must not be empty
UpdPre(p, exeOk) ==
  /\ up[p].pc = "pre"
  /\ LET a == up[p]
         now == Vers(version, managedVersions)
         bad == IF a.fn = "updateBackend" THEN ~exeOk
                ELSE findManagedComponent(a.slug).mc.Dir = <<>>
         old == IF a.fn = "updateBackend" THEN version ELSE managedVersions[a.slug]
     IN up' = [up EXCEPT ![p] =
                 IF bad
                   THEN Failed([a EXCEPT !.snap = now], "target",
                               binaryFailure(a.slug, old, a.latest, ErrUpdateApply,
                                             Err("no target path", 0, "")), now)
                   ELSE [a EXCEPT !.pc = "wait"]]
  /\ UNCHANGED <<state, lifeVars, ota, version, managedVersions, updateMu, disk, bin,
                 nHb, hbu, nPlug, plug>>

\* mutant: the mutex is taken whoever holds it
TryLockAlways(mu) == TRUE
\* g.updateMu.Lock() returns
TryLock(mu) == mu = 0

\* g.updateMu.Lock(), and the read of the old version behind it
UpdLock(p) ==
  /\ up[p].pc = "wait"
  /\ TryLock(updateMu)
  /\ updateMu' = p
  /\ LET a == up[p] IN
     up' = [up EXCEPT ![p] =
              [a EXCEPT !.pc = "request",
                        !.snap = Vers(version, managedVersions),
                        !.old = CASE a.fn = "updateBackend" -> version
                                  [] a.fn = "updateManagedBackend" ->
                                       managedVersions[a.slug]
                                  [] OTHER -> ""]]
  /\ UNCHANGED <<state, lifeVars, ota, version, managedVersions, disk, bin, nHb, hbu,
                 nPlug, plug>>

\* stage 1: POST /api/v1/update/download
UpdRequest(p, meta) ==
  /\ up[p].pc = "request"
  /\ LET a == up[p]
         now == Vers(version, managedVersions)
         front == a.fn = "updateFrontend"
         err == IF front
                  THEN IF postJSON(meta) # Nil THEN postJSON(meta)
                       ELSE IF meta.Error # "" THEN Err(meta.Error, 0, "")
                       ELSE Nil
                  ELSE requestDownloadMeta(meta)
         cbs == IF front THEN frontendFailure(a.slug, ErrUpdateDownload, err)
                ELSE binaryFailure(a.slug, a.old, a.latest, ErrUpdateDownload, err)
     IN /\ meta \in (IF front THEN FrontendMetas ELSE BinaryMetas)
        /\ IF err # Nil
             THEN /\ up' = [up EXCEPT ![p] = Failed(a, "request", cbs, now)]
                  /\ updateMu' = 0
             ELSE /\ up' = [up EXCEPT ![p] =
                              [a EXCEPT !.pc = "download", !.meta = meta,
                                        !.stages = @ \cup {"request"}]]
                  /\ UNCHANGED updateMu
  /\ UNCHANGED <<state, lifeVars, ota, version, managedVersions, disk, bin, nHb, hbu,
                 nPlug, plug>>

\* mutant: the temporary file of a copy that failed is left behind
copyFailedNoRemove(net) == IF net = "copy" THEN "there" ELSE ""
\* downloadArtifactWithProgress, lines 274-277: os.CreateTemp has made the
\* file when io.Copy fails, and os.Remove deletes it
copyFailed(net) == IF net = "copy" THEN "removed" ELSE ""

\* stage 2: GET of the download URL; a binary is streamed to a temporary
\* file, a bundle is still to be read
UpdDownload(p, dl) ==
  /\ up[p].pc = "download"
  /\ LET a == up[p]
         now == Vers(version, managedVersions)
         front == a.fn = "updateFrontend"
         err == Err("download failed", 0, dl.net)
         cbs == IF front THEN frontendFailure(a.slug, ErrUpdateDownload, err)
                ELSE binaryFailure(a.slug, a.old, a.latest, ErrUpdateDownload, err)
     IN /\ dl \in Downloads(IF front THEN ArchiveNames ELSE Blobs)
        /\ front => dl.net # "copy"
        /\ IF dl.net # "ok"
             THEN /\ up' = [up EXCEPT ![p] =
                              [Failed(a, "download", cbs, now)
                                 EXCEPT !.tmpPath = copyFailed(dl.net)]]
                  /\ updateMu' = 0
             ELSE /\ up' = [up EXCEPT ![p] =
                              [a EXCEPT !.pc = IF front THEN "mktemp" ELSE "hash",
                                        !.body = dl.body,
                                        !.tmpPath = IF front THEN "" ELSE "there",
                                        !.stages = @ \cup {"download"}]]
                  /\ UNCHANGED updateMu
  /\ UNCHANGED <<state, lifeVars, ota, version, managedVersions, disk, bin, nHb, hbu,
                 nPlug, plug>>

\* updateFrontend: os.MkdirTemp, then gzip.NewReader on the stream
UpdMkTemp(p, ok) ==
  /\ up[p].pc = "mktemp"
  /\ LET a == up[p]
         now == Vers(version, managedVersions)
         arch == Archives[a.body]
     IN IF ~ok
          THEN /\ up' = [up EXCEPT ![p] =
                           Failed(a, "extract",
                                  frontendFailure(a.slug, ErrUpdateApply,
                                                  Err("mkdtemp", 0, "")), now)]
               /\ updateMu' = 0
               /\ UNCHANGED disk
          ELSE IF ~arch.gzip
            THEN /\ up' = [up EXCEPT ![p] =
                             Failed(a, "extract",
                                    frontendFailure(a.slug, ErrUpdateVerify,
                                                    Err("gzip", 0, "")), now)]
                 /\ updateMu' = 0
                 /\ UNCHANGED disk
          ELSE /\ up' = [up EXCEPT ![p] = [a EXCEPT !.pc = "extract", !.idx = 1]]
               /\ disk' = disk \cup {Node(TmpDir, "dir", a.body)}
               /\ UNCHANGED updateMu
  /\ UNCHANGED <<state, lifeVars, ota, version, managedVersions, bin, nHb, hbu, nPlug,
                 plug>>

\* one turn of the loop over the tar entries; after the last entry
\* tr.Next returns io.EOF
UpdExtract(p, io) ==
  /\ up[p].pc = "extract"
  /\ LET a == up[p]
         now == Vers(version, managedVersions)
         entries == Archives[a.body].entries
         hdr == entries[a.idx]
         r == extractEntry(disk, hdr, a.body, io)
     IN IF hdr.Typeflag = "corrupt"
          THEN /\ up' = [up EXCEPT ![p] =
                           Failed(a, "extract",
                                  frontendFailure(a.slug, ErrUpdateVerify,
                                                  Err("tar", 0, "")), now)]
               /\ disk' = RemoveAll(disk, TmpDir)
               /\ updateMu' = 0
          ELSE IF r.err
            THEN /\ up' = [up EXCEPT ![p] =
                             Failed([a EXCEPT !.wrote = @ \cup r.wrote], "extract",
                                    frontendFailure(a.slug, ErrUpdateApply,
                                                    Err("write", 0, "")), now)]
                 /\ disk' = RemoveAll(r.disk, TmpDir)
                 /\ updateMu' = 0
          ELSE /\ up' = [up EXCEPT ![p] =
                           [a EXCEPT !.idx = @ + 1, !.wrote = @ \cup r.wrote,
                                     !.pc = IF a.idx = Len(entries) THEN "hash"
                                            ELSE "extract",
                                     !.stages = IF a.idx = Len(entries)
                                                  THEN @ \cup {"extract"} ELSE @]]
               /\ disk' = r.disk
               /\ UNCHANGED updateMu
  /\ UNCHANGED <<state, lifeVars, ota, version, managedVersions, bin, nHb, hbu, nPlug,
                 plug>>

\* the digest of what was read is compared with the declared one
UpdVerifyHash(p) ==
  /\ up[p].pc = "hash"
  /\ LET a == up[p]
         now == Vers(version, managedVersions)
         front == a.fn = "updateFrontend"
         err == Err("hash mismatch", 0, "")
         cbs == IF front THEN frontendFailure(a.slug, ErrUpdateVerify, err)
                ELSE binaryFailure(a.slug, a.old, a.latest, ErrUpdateVerify, err)
     IN IF ~hashMatches(Hex(Sha256(a.body)), a.meta.SHA256)
          THEN /\ up' = [up EXCEPT ![p] = Failed(a, "hash", cbs, now)]
               /\ disk' = IF front THEN RemoveAll(disk, TmpDir) ELSE disk
               /\ updateMu' = 0
          ELSE /\ up' = [up EXCEPT ![p] =
                           [a EXCEPT !.pc = IF front THEN "swap" ELSE "sig",
                                     !.stages = @ \cup {"hash"}]]
               /\ UNCHANGED <<disk, updateMu>>
  /\ UNCHANGED <<state, lifeVars, ota, version, managedVersions, bin, nHb, hbu, nPlug,
                 plug>>

\* updateBinaryComponent: the signature over the declared hash string
UpdVerifySig(p) ==
  /\ up[p].pc = "sig"
  /\ LET a == up[p]
         now == Vers(version, managedVersions)
         err == Err("signature", 0, "")
     IN IF ~verifySignature(a.meta.SHA256, a.meta.Signature)
          THEN /\ up' = [up EXCEPT ![p] =
                           Failed(a, "sig",
                                  binaryFailure(a.slug, a.old, a.latest,
                                                ErrUpdateVerify, err), now)]
               /\ updateMu' = 0
          ELSE /\ up' = [up EXCEPT ![p] =
                           [a EXCEPT !.pc = "apply", !.stages = @ \cup {"sig"}]]
               /\ UNCHANGED updateMu
  /\ UNCHANGED <<state, lifeVars, ota, version, managedVersions, disk, bin, nHb, hbu,
                 nPlug, plug>>

\* stage 3 of updateBinaryComponent: the binary at the target path is
\* replaced, kept, or lost when the rollback fails too
UpdApply(p, outcome) ==
  /\ up[p].pc = "apply"
  /\ LET a == up[p]
         now == Vers(version, managedVersions)
         err == applyBackendBinaryWithSelfupdate(outcome)
     IN /\ bin' = CASE outcome = "ok" -> [bin EXCEPT ![a.slug] = a.body]
                    [] outcome = "failed" -> bin
                    [] OTHER -> [bin EXCEPT ![a.slug] = "missing"]
        /\ IF err # Nil
             THEN /\ up' = [up EXCEPT ![p] =
                              Failed(a, "apply",
                                     binaryFailure(a.slug, a.old, a.latest,
                                                   ErrUpdateApply, err), now)]
                  /\ updateMu' = 0
             ELSE /\ up' = [up EXCEPT ![p] =
                              [a EXCEPT !.pc = "commit", !.applied = outcome = "ok",
                                        !.stages = @ \cup {"apply"}]]
                  /\ UNCHANGED updateMu
  /\ UNCHANGED <<state, lifeVars, ota, version, managedVersions, disk, nHb, hbu,
                 nPlug, plug>>

SwapOutcomes == {"ok", "backup failed", "move failed", "move and rollback failed"}

\* mutant: the backup is left where it is
swapRollbackNone(d, dir, had) == d
\* line 448: os.Rename(backupDir, mc.Dir), where a backup was made
swapRollback(d, dir, had) == IF had THEN Rename(d, BackupDir(dir), dir) ELSE d

\* updateFrontend, lines 433-454: the live directory becomes the backup,
\* the extracted directory becomes the live one
UpdSwap(p, outcome) ==
  /\ up[p].pc = "swap"
  /\ LET a == [up[p] EXCEPT !.swap = outcome]
         now == Vers(version, managedVersions)
         dir == findManagedComponent(a.slug).mc.Dir
         cbs == frontendFailure(a.slug, ErrUpdateApply, Err("rename", 0, outcome))
         d0 == RemoveAll(disk, BackupDir(dir))
         d1 == IF IsDir(d0, dir) THEN Rename(d0, dir, BackupDir(dir)) ELSE d0
     IN CASE outcome = "backup failed" ->
               /\ IsDir(d0, dir)
               /\ up' = [up EXCEPT ![p] = Failed(a, "apply", cbs, now)]
               /\ disk' = RemoveAll(d0, TmpDir)
               /\ updateMu' = 0
          [] outcome = "move failed" ->
               /\ up' = [up EXCEPT ![p] = Failed(a, "apply", cbs, now)]
               /\ disk' = RemoveAll(swapRollback(d1, dir, IsDir(d0, dir)), TmpDir)
               /\ updateMu' = 0
          [] outcome = "move and rollback failed" ->
               /\ IsDir(d0, dir)
               /\ up' = [up EXCEPT ![p] = Failed(a, "apply", cbs, now)]
               /\ disk' = RemoveAll(d1, TmpDir)
               /\ updateMu' = 0
          [] OTHER ->
               /\ up' = [up EXCEPT ![p] =
                           [a EXCEPT !.pc = "commit", !.applied = TRUE,
                                     !.stages = @ \cup {"apply"}]]
               /\ disk' = Rename(d1, TmpDir, dir)
               /\ UNCHANGED updateMu
  /\ UNCHANGED <<state, lifeVars, ota, version, managedVersions, bin, nHb, hbu, nPlug,
                 plug>>

\* the new version is recorded and OnUpdateResult reports success; a
\* binary update then returns, a frontend update goes on to the hook
UpdCommit(p) ==
  /\ up[p].pc = "commit"
  /\ LET a == up[p]
         front == a.fn = "updateFrontend"
         mc == findManagedComponent(a.slug).mc
         old == IF front THEN managedVersions[a.slug] ELSE a.old
         v == IF a.fn = "updateBackend" THEN a.latest ELSE version
         mv == IF a.fn = "updateBackend" THEN managedVersions
               ELSE setManagedVersion(managedVersions, a.slug, a.latest)
         hook == front /\ mc.PostUpdate
     IN /\ version' = v
        /\ managedVersions' = mv
        /\ up' = [up EXCEPT ![p] =
                    [a EXCEPT !.pc = IF hook THEN "hook" ELSE "done",
                              !.old = old,
                              !.tmpPath = deferRemove(@),
                              !.cb = Append(@, CbResult(a.slug, old, a.latest, TRUE, Nil)),
                              !.stages = @ \cup {"commit"},
                              !.endv = Vers(v, mv)]]
        /\ updateMu' = IF hook THEN updateMu ELSE 0
  /\ UNCHANGED <<state, lifeVars, ota, disk, bin, nHb, hbu, nPlug, plug>>

\* lines 472-478: mc.PostUpdate() returns nil or an error
UpdHook(p, hookOk) ==
  /\ up[p].pc = "hook"
  /\ LET a == up[p]
         dir == findManagedComponent(a.slug).mc.Dir
         r == afterPostUpdate(~hookOk, disk, managedVersions, dir, a.slug, a.old)
     IN /\ disk' = RemoveAll(r.disk, TmpDir)
        /\ managedVersions' = r.managed
        /\ up' = [up EXCEPT ![p] =
                    [a EXCEPT !.pc = "done", !.hook = IF hookOk THEN "ok" ELSE "error",
                              !.stages = @ \cup {"hook"},
                              !.endv = Vers(version, r.managed)]]
        /\ updateMu' = 0
  /\ UNCHANGED <<state, lifeVars, ota, version, bin, nHb, hbu, nPlug, plug>>

(* ----------------------------- UpdatePlugin ---------------------------- *)
\* a PluginInfo of the catalog; LatestVersion "<nil>" is the nil pointer
PluginInfo(slug, otaOn, avail, can, latest) ==
  [Slug |-> slug, OTAEnabled |-> otaOn, UpdateAvailable |-> avail, CanUpdate |-> can,
   LatestVersion |-> latest]
PluginInfos ==
  {PluginInfo(c, TRUE, TRUE, TRUE, "v2") : c \in Slugs}
    \cup UNION {{PluginInfo(c, FALSE, TRUE, TRUE, "v2"),
                 PluginInfo(c, TRUE, FALSE, TRUE, "v2"),
                 PluginInfo(c, TRUE, TRUE, FALSE, "v2"),
                 PluginInfo(c, TRUE, TRUE, TRUE, "<nil>"),
                 PluginInfo(c, TRUE, TRUE, TRUE, "")} : c \in {ComponentSlug, "other"}}
\* what GET /api/v1/plugins/catalog answers
Catalogs ==
  [net : {"ok"}, UpdateFrozen : BOOLEAN,
   Plugins : {<<>>} \cup {<<i>> : i \in PluginInfos}]
    \cup [net : {"transport", "decode"}, UpdateFrozen : {FALSE}, Plugins : {<<>>}]

\* the catalog that offers version v2 of plugin c, ready to be installed
FitCatalog(c) ==
  [net |-> "ok", UpdateFrozen |-> FALSE,
   Plugins |-> <<PluginInfo(c, TRUE, TRUE, TRUE, "v2")>>]

\* getJSON: the error it returns for a server behaviour
getJSON(resp) ==
  CASE resp.net = "transport" -> Err("transport", 1, "send request")
    [] resp.net = "status" -> Wrap(ErrInvalidServerResponse, "status")
    [] resp.net = "decode" -> Wrap(ErrInvalidServerResponse, "decode")
    [] OTHER -> Nil

\* lines 93-99: the index of the first plugin of the catalog with that slug
pluginTarget(cat, slug) ==
  LET hits == {i \in DOMAIN cat.Plugins : cat.Plugins[i].Slug = slug} IN
  IF hits = {} THEN 0 ELSE CHOOSE i \in hits : \A j \in hits : i <= j

\* mutant: the frozen catalog is not looked at
catalogErrorNoFreeze(slug, cat) ==
  LET t == pluginTarget(cat, slug) IN
  IF slug = "" THEN Err("plugin slug is required", 0, "")
  ELSE IF getJSON(cat) # Nil THEN Wrap(getJSON(cat), "request plugin catalog")
  ELSE IF t = 0 THEN ErrPluginNotFound
  ELSE IF ~cat.Plugins[t].OTAEnabled THEN ErrPluginOTADisabled
  ELSE IF ~cat.Plugins[t].UpdateAvailable THEN ErrNoPluginUpdate
  ELSE IF ~cat.Plugins[t].CanUpdate THEN ErrNoPluginUpdate
  ELSE IF cat.Plugins[t].LatestVersion \in {"<nil>", ""} THEN ErrNoPluginUpdate
  ELSE Nil

\* UpdatePlugin, lines 81-114: the error the catalog makes it return
catalogError(slug, cat) ==
  LET t == pluginTarget(cat, slug) IN
  IF slug = "" THEN Err("plugin slug is required", 0, "")
  ELSE IF getJSON(cat) # Nil THEN Wrap(getJSON(cat), "request plugin catalog")
  ELSE IF cat.UpdateFrozen THEN ErrUpdateFrozen
  ELSE IF t = 0 THEN ErrPluginNotFound
  ELSE IF ~cat.Plugins[t].OTAEnabled THEN ErrPluginOTADisabled
  ELSE IF ~cat.Plugins[t].UpdateAvailable THEN ErrNoPluginUpdate
  ELSE IF ~cat.Plugins[t].CanUpdate THEN ErrNoPluginUpdate
  ELSE IF cat.Plugins[t].LatestVersion \in {"<nil>", ""} THEN ErrNoPluginUpdate
  ELSE Nil

\* UpdatePlugin, lines 122-150: what it does once the catalog lets it go
\* on: return ret, or call fn
pluginRoute(slug, latest, v, mv) ==
  IF slug = ComponentSlug
    THEN IF v = latest THEN [ret |-> Nil, fn |-> "none"]
         ELSE [ret |-> Pending, fn |-> "updateBackend"]
  ELSE LET f == findManagedComponent(slug) IN
       IF ~f.ok THEN [ret |-> ErrPluginNotManaged, fn |-> "none"]
       ELSE IF mv[slug] = latest THEN [ret |-> Nil, fn |-> "none"]
       ELSE IF f.mc.Strategy = UpdateBackend
         THEN [ret |-> Pending, fn |-> "updateManagedBackend"]
       ELSE [ret |-> Pending, fn |-> "updateFrontend"]

\* UpdatePlugin(ctx, slug) from its call to its return or to its call of
\* the update function
UpdatePluginCall(slug, cat) ==
  /\ nPlug < MaxPluginCalls
  /\ plug.pc # "run"
  /\ FreeProcs # {}
  /\ nPlug' = nPlug + 1
  /\ LET e == catalogError(slug, cat)
         t == pluginTarget(cat, slug)
         seen == slug # "" /\ getJSON(cat) = Nil
         info == [pc |-> "done", slug |-> slug,
                  frozen |-> seen /\ cat.UpdateFrozen,
                  listed |-> seen /\ t # 0,
                  entry |-> IF seen /\ t # 0 THEN cat.Plugins[t] ELSE NoPluginInfo,
                  had |-> IF slug = ComponentSlug THEN version
                          ELSE IF slug \in ManagedSlugs THEN managedVersions[slug]
                          ELSE "",
                  latest |-> IF seen /\ t # 0 THEN cat.Plugins[t].LatestVersion ELSE "",
                  proc |-> 0, ret |-> e, read |-> ""]
     IN IF e # Nil
          THEN plug' = info /\ UNCHANGED up
          ELSE LET r == pluginRoute(slug, info.latest, version, managedVersions) IN
               IF r.fn = "none"
                 THEN plug' = [info EXCEPT !.ret = r.ret] /\ UNCHANGED up
                 ELSE /\ plug' = [info EXCEPT !.pc = "run", !.ret = Pending,
                                              !.proc = NthFree(1)]
                      /\ up' = [up EXCEPT ![NthFree(1)] =
                                  NewAttempt(r.fn, slug, info.latest, "plugin")]
  /\ UNCHANGED <<state, lifeVars, ota, version, managedVersions, updateMu, disk, bin,
                 nHb, hbu>>

\* UpdatePlugin, lines 129-132 and 152-156: the update function has
\* returned, the recorded version is read again
UpdatePluginReturn ==
  /\ plug.pc = "run"
  /\ up[plug.proc].pc = "done"
  /\ LET now == IF plug.slug = ComponentSlug THEN version
                ELSE managedVersions[plug.slug]
     IN plug' = [plug EXCEPT !.pc = "done", !.read = now,
                             !.ret = IF now # plug.latest THEN ErrUpdateApply ELSE Nil]
  /\ UNCHANGED <<state, lifeVars, ota, version, managedVersions, updateMu, up, disk,
                 bin, nHb, hbu, nPlug>>

\* a Guard whose Start has succeeded and whose heartbeat loop is sending
InitStarted ==
  /\ state = StateActive
  /\ appPc = "idle"
  /\ gCancel = 1
  /\ cancelled = [l \in Loops |-> FALSE]
  /\ nStarts = 1
  /\ startRes = [verr |-> Nil, ret |-> Nil, signed |-> TRUE]
  /\ verified = TRUE
  /\ hbPc = [l \in Loops |-> IF l = 1 THEN "inflight" ELSE "none"]
  /\ hbTimer = [l \in Loops |-> 0]
  /\ graceStart = [l \in Loops |-> ZeroTime]
  /\ hbErr = [l \in Loops |-> Nil]
  /\ hbLast = [l \in Loops |-> "none"]
  /\ hbSeen = {}

\* such a Guard, with any OTA configuration
InitUpdate ==
  /\ InitStarted
  /\ InitSM
  /\ cache = NoFile
  /\ vl = NoVerify
  /\ InitUpd
  /\ ota \in [Enabled : BOOLEAN, AutoUpdate : BOOLEAN]

\* the server behaviours watched while attempts run concurrently
FewMetas ==
  {m \in BinaryMetas :
     m.Error = "" /\ m.net \in {"ok", "transport"}
       /\ m.Signature.b64 /\ m.Signature.msg = Sha256(Hex(Sha256("b1")))}
    \cup {m \in FrontendMetas : m.SHA256 = Hex(Sha256("site")) /\ m.Error = ""}
FewDownloads ==
  {d \in Downloads(Blobs \cup {"site", "evil", "torn"}) : d.net # "status"}

NextUpdate ==
  \/ SetVersion("v2")
  \/ SetManagedVersion("admin", "v2")
  \/ \E resp \in UpdateHeartbeats : SendHeartbeat(resp)
  \/ \E p \in Procs, exeOk \in BOOLEAN : UpdPre(p, exeOk)
  \/ \E p \in Procs : UpdLock(p)
  \/ \E p \in Procs, meta \in FewMetas : UpdRequest(p, meta)
  \/ \E p \in Procs, dl \in FewDownloads : UpdDownload(p, dl)
  \/ \E p \in Procs, ok \in BOOLEAN : UpdMkTemp(p, ok)
  \/ \E p \in Procs, io \in BOOLEAN : UpdExtract(p, io)
  \/ \E p \in Procs : UpdVerifyHash(p)
  \/ \E p \in Procs : UpdVerifySig(p)
  \/ \E p \in Procs, outcome \in ApplyOutcomes : UpdApply(p, outcome)
  \/ \E p \in Procs, outcome \in SwapOutcomes : UpdSwap(p, outcome)
  \/ \E p \in Procs : UpdCommit(p)
  \/ \E p \in Procs, hookOk \in BOOLEAN : UpdHook(p, hookOk)
  \/ \E c \in {ComponentSlug, "worker", "admin"} : UpdatePluginCall(c, FitCatalog(c))
  \/ UpdatePluginReturn

\* the update engine of a Guard: heartbeat notifications and UpdatePlugin
\* calls for updatable plugins start attempts, which run concurrently up to
\* the update mutex
SpecUpdate == InitUpdate /\ [][NextUpdate]_vars

NextPlugin ==
  \/ SetVersion("v2")
  \/ SetManagedVersion("admin", "v2")
  \/ \E slug \in Slugs \cup {""}, cat \in Catalogs : UpdatePluginCall(slug, cat)
  \/ UpdatePluginReturn
  \/ \E p \in Procs, exeOk \in BOOLEAN : UpdPre(p, exeOk)
  \/ \E p \in Procs : UpdLock(p)
  \/ \E p \in Procs, meta \in BinaryMetas \cup FrontendMetas : UpdRequest(p, meta)
  \/ \E p \in Procs, dl \in Downloads(Blobs \cup ArchiveNames) : UpdDownload(p, dl)
  \/ \E p \in Procs, ok \in BOOLEAN : UpdMkTemp(p, ok)
  \/ \E p \in Procs, io \in BOOLEAN : UpdExtract(p, io)
  \/ \E p \in Procs : UpdVerifyHash(p)
  \/ \E p \in Procs : UpdVerifySig(p)
  \/ \E p \in Procs, outcome \in ApplyOutcomes : UpdApply(p, outcome)
  \/ \E p \in Procs, outcome \in SwapOutcomes : UpdSwap(p, outcome)
  \/ \E p \in Procs : UpdCommit(p)
  \/ \E p \in Procs, hookOk \in BOOLEAN : UpdHook(p, hookOk)

\* UpdatePlugin called by the application on any catalog, no heartbeat
\* notification arriving meanwhile
SpecPlugin == InitUpdate /\ [][NextPlugin]_vars

(* ------------------------------- claims -------------------------------- *)
\* the loops whose goroutine has been launched
Launched == {l \in Loops : hbPc[l] # "none"}
\* the loops whose goroutine is running
Running == {l \in Loops : hbPc[l] \notin {"none", "done"}}

\* C3: when verifyLicense fails inside Start, Start returns an error that
\* wraps it and launches no heartbeat loop, and as long as no Start has
\* passed verification the state is INIT and Check returns ErrNotActivated;
\* a loop is launched only after OnVerifySuccess has been applied (never in
\* INIT, never before the call has left line 95).
C3_StartFailureKeepsInit ==
  /\ startRes.verr \notin {NoCall, Pending, Nil} =>
       /\ appPc = "idle"
       /\ startRes.ret \notin {NoCall, Pending, Nil}
       /\ Is(startRes.ret, startRes.verr)
       /\ hbPc[gCancel] = "none"
  /\ ~verified =>
       /\ state = StateInit
       /\ Check(state) = ErrNotActivated
       /\ Launched = {}
  /\ state = StateInit => Launched = {}
  /\ appPc \in {"verify", "verified"} => hbPc[gCancel] = "none"

C3_Witness ==
  /\ appPc = "idle"
  /\ Is(startRes.verr, ErrNetworkError)
  /\ cache = Malformed
  /\ state = StateInit

\* C4: once a loop has received a response with status kill, the state is
\* BANNED and the loop is between the return of sendHeartbeat and its own
\* return, or has returned: it never sleeps or sends again.
C4_KillBansAndStops ==
  \A l \in Loops :
    hbLast[l] = "kill" => state = StateBanned /\ hbPc[l] \in {"handle", "done"}

\* ... a kill received in GRACE, with the grace-start marker set
C4_Witness ==
  \E l \in Loops :
    hbLast[l] = "kill" /\ hbPc[l] = "done" /\ graceStart[l] # ZeroTime

\* C7: as long as every heartbeat response so far had status ok, the state
\* is ACTIVE whenever a loop has been launched, and a loop that has returned
\* had its context cancelled.
C7_AllOkStaysActive ==
  hbSeen \subseteq {"ok"} =>
    \A l \in Launched :
      /\ state = StateActive
      /\ hbPc[l] = "done" => cancelled[l]

\* ... two loops, both past a successful heartbeat
C7_Witness ==
  /\ hbSeen = {"ok"}
  /\ \A l \in Loops : hbLast[l] = "ok" /\ hbPc[l] = "sleep"

\* C5: from any state in which a loop runs and every heartbeat so far has
\* failed with a transient error, either a heartbeat is answered or a launched
\* loop is cancelled, or else the state becomes LOCKED and the loop has
\* returned.
C5_AllFailLocks ==
  \A l \in Loops :
    (l \in Running /\ hbSeen \subseteq {"fail"})
      ~> \/ state = StateLocked /\ hbPc[l] = "done"
         \/ \E k \in Launched : cancelled[k]
         \/ ~(hbSeen \subseteq {"fail"})

\* ... locked by failures alone, without any cancellation
C5_Witness ==
  /\ state = StateLocked
  /\ hbSeen = {"fail"}
  /\ \E l \in Loops : hbPc[l] = "done" /\ graceStart[l] > MaxOfflineDuration
  /\ \A l \in Loops : ~cancelled[l]

\* C6: a step in which a loop handles a transient failure takes ACTIVE to
\* GRACE and does not end the loop; the grace check that follows ends the
\* loop only when the time since the first consecutive failure exceeds
\* MaxOfflineDuration and otherwise puts it to sleep for a jittered interval;
\* a step in which a loop handles a success takes GRACE to ACTIVE; and a
\* sleeping loop sends its next heartbeat unless its context is cancelled.
C6_Step ==
  \A l \in Loops :
    /\ (hbPc[l] = "handle" /\ hbLast[l] = "fail" /\ hbPc'[l] # "handle") =>
         /\ hbPc'[l] = "graceCheck"
         /\ state = StateActive => state' = StateGrace
    /\ (hbPc[l] = "graceCheck" /\ hbPc'[l] # "graceCheck"
          /\ graceStart[l] <= MaxOfflineDuration) =>
         /\ hbPc'[l] = "sleep"
         /\ hbTimer'[l] \in Jitters
         /\ 10 * hbTimer'[l] >= 9 * HeartbeatInterval - 9
         /\ 10 * hbTimer'[l] < 11 * HeartbeatInterval
         /\ state' = state
    /\ (hbPc[l] = "handle" /\ hbLast[l] = "ok" /\ hbPc'[l] # "handle") =>
         /\ hbPc'[l] = "sleep"
         /\ state \in {StateGrace, StateActive} => state' = StateActive

C6_TransientFailureRetries ==
  /\ [][C6_Step]_vars
  /\ \A l \in Loops :
       (hbPc[l] = "sleep" /\ hbLast[l] = "fail")
         ~> (hbPc[l] = "inflight" \/ cancelled[l])

\* ... a loop that failed, slept, and recovered the state to ACTIVE
C6_Witness ==
  \E l \in Loops :
    /\ hbLast[l] = "ok" /\ hbPc[l] = "sleep"
    /\ "fail" \in hbSeen /\ hbLast[3 - l] = "none"
    /\ state = StateActive

\* C1: once OnKill has run, from whatever state, the state is BANNED, and
\* it is BANNED after every later event of every caller.
C1_BannedAbsorbing == killFrom # "none" => state = StateBanned

\* ... OnKill ran in GRACE and another caller's OnVerifySuccess ran after it
C1_Witness ==
  /\ killFrom = StateGrace
  /\ smLast = "OnVerifySuccess"
  /\ state = StateBanned

\* C2: a Check that read the state returned nil exactly for ACTIVE and GRACE,
\* ErrNotActivated for INIT, ErrLocked for LOCKED and ErrBanned for BANNED.
C2_CheckByState ==
  checked.at # "none" =>
    /\ checked.err = Nil <=> checked.at \in {StateActive, StateGrace}
    /\ checked.at = StateInit => checked.err = ErrNotActivated
    /\ checked.at = StateLocked => checked.err = ErrLocked
    /\ checked.at = StateBanned => checked.err = ErrBanned

\* ... a Check in GRACE that returned nil
C2_Witness == checked.at = StateGrace /\ checked.err = Nil

\* a cache entry whose signature is base64 of a signature by the configured
\* key over the SHA-256 digest of the entry's publicData
ValidEntry(f) ==
  /\ f.kind = "entry"
  /\ f.Signature.b64
  /\ f.Signature.signer = PublicKey
  /\ f.Signature.msg = Sha256(f.PublicData)

\* C8: verifyLicense on a cache entry whose signature verifies returns nil
\* and sends no request.
C8_ValidCacheNoRequest ==
  (vl.called /\ ValidEntry(vl.file)) =>
    /\ vl.out.err = Nil
    /\ vl.out.calls = 0

\* ... a valid entry that holds another license key, against a dead server
C8_Witness ==
  /\ vl.called /\ ValidEntry(vl.file)
  /\ vl.file.LicenseKey # LicenseKey
  /\ vl.resp.net = "transport"

\* what verifyLicense returns when there is no cache file
NoCacheResult(resp) ==
  CASE resp.net # "ok" -> "network"
    [] resp.Error # "" -> resp.Error
    [] OTHER -> "nil"
\* the same reading of an error verifyLicense returned
ResultOf(err) ==
  CASE err = Nil -> "nil"
    [] Is(err, ErrNetworkError) -> "network"
    [] err = ErrLicenseExpired -> "license_expired"
    [] err = ErrProjectNotAuthorized -> "project_not_authorized"
    [] err = ErrMaxMachinesExceeded -> "max_machines_exceeded"
    [] err = ErrMachineBanned -> "machine_banned"
    [] err = ErrLicenseInvalid -> "license_not_found|license_inactive"
    [] OTHER -> err.d

\* C9: verifyLicense on a cache file that is unreadable, malformed, not
\* base64 or wrongly signed sends the request and returns what it returns,
\* for the same server behaviour, when there is no cache file.
C9_BadCacheLikeNoCache ==
  (vl.called /\ vl.file # NoFile /\ ~ValidEntry(vl.file)) =>
    /\ vl.out.calls = 1
    /\ vl.out.err = verifyLicense(NoFile, vl.resp, vl.wrote).err
    /\ verifyLicense(NoFile, vl.resp, vl.wrote).calls = 1
    /\ ResultOf(vl.out.err) \in
         IF NoCacheResult(vl.resp) \in {"license_not_found", "license_inactive"}
         THEN {"license_not_found|license_inactive"}
         ELSE {NoCacheResult(vl.resp)}

\* ... an entry that is not base64, and a server that accepts the license
C9_Witness ==
  /\ vl.called
  /\ vl.file.kind = "entry" /\ ~vl.file.Signature.b64
  /\ vl.resp.net = "ok" /\ vl.resp.Error = ""
  /\ vl.out.err = Nil

\* C10: when the request is sent and answered with an error code,
\* verifyLicense returns the typed error of the code, for a code outside the
\* table ErrLicenseInvalid wrapped once with the code attached; when the
\* request fails in transport, status or decoding it returns ErrNetworkError
\* wrapped.
C10_ErrorCodeMapping ==
  (vl.called /\ ~ValidEntry(vl.file)) =>
    /\ (vl.resp.net = "ok" /\ vl.resp.Error # "") =>
         vl.out.err =
           CASE vl.resp.Error = "license_not_found" -> ErrLicenseInvalid
             [] vl.resp.Error = "license_inactive" -> ErrLicenseInvalid
             [] vl.resp.Error = "license_expired" -> ErrLicenseExpired
             [] vl.resp.Error = "project_not_authorized" -> ErrProjectNotAuthorized
             [] vl.resp.Error = "max_machines_exceeded" -> ErrMaxMachinesExceeded
             [] vl.resp.Error = "machine_banned" -> ErrMachineBanned
             [] OTHER -> [s |-> "ErrLicenseInvalid", w |-> 1, d |-> vl.resp.Error]
    /\ vl.resp.net # "ok" =>
         /\ Is(vl.out.err, ErrNetworkError)
         /\ vl.out.err.w >= 1

\* ... a code outside the table
C10_Witness ==
  /\ vl.called /\ ~ValidEntry(vl.file)
  /\ vl.resp.net = "ok" /\ vl.resp.Error = "quota_exceeded"
  /\ vl.out.err.d = "quota_exceeded"

(* ------------------------ claims on the update engine ------------------ *)
\* the attempts that hold or have held an artifact read from the server
Downloaded(a) == a.body # "" /\ "download" \in a.stages
\* the digest computed over what was read differs from the declared one
Mismatch(a) == Downloaded(a) /\ Hex(Sha256(a.body)) # a.meta.SHA256
\* the live directory of the frontend component, and what is in it
LiveDir == findManagedComponent("admin").mc.Dir
LiveTree(d) == {n \in d : Under(n.path, LiveDir)}
\* the first callback of attempt a is OnUpdateFailure with an error that
\* wraps sentinel
FirstFailureWraps(a, sentinel) ==
  /\ Len(a.cb) >= 1
  /\ a.cb[1].cb = "OnUpdateFailure"
  /\ a.cb[1].component = a.slug
  /\ Is(a.cb[1].err, sentinel) /\ a.cb[1].err.w >= 1

\* what holds of an attempt whose artifact does not have the declared digest
C11_MismatchState(a) ==
  /\ ~a.applied
  /\ "apply" \notin a.stages /\ "commit" \notin a.stages
  /\ a.pc \notin {"sig", "apply", "swap", "commit", "hook"}
  /\ a.pc = "done" =>
       /\ a.endv = a.snap
       /\ a.fail \in {"extract", "hash"}
       /\ a.fail = "hash" => FirstFailureWraps(a, ErrUpdateVerify)
\* what a step of such an attempt leaves alone
C11_MismatchStep ==
  (\E p \in Procs : up'[p] # up[p] /\ Mismatch(up'[p])) =>
    /\ bin' = bin
    /\ LiveTree(disk') = LiveTree(disk)
    /\ version' = version /\ managedVersions' = managedVersions

\* C11: an update, backend or frontend, whose artifact does not hash to the
\* digest the server declared never reaches the apply step: the binary, the
\* live directory and the recorded versions stay as they were, and
\* OnUpdateFailure is called with an error wrapping ErrUpdateVerify.
C11_HashMismatchNeverApplied ==
  /\ [](\A p \in Procs : Mismatch(up[p]) => C11_MismatchState(up[p]))
  /\ [][C11_MismatchStep]_vars

C11_Witness ==
  \E p \in Procs :
    /\ up[p].fn = "updateFrontend" /\ up[p].pc = "done" /\ up[p].fail = "hash"
    /\ up[p].body = "evil" /\ up[p].meta.SHA256 = Hex(Sha256("site"))

\* the attempts that replace a binary
Binary(a) == a.fn \in {"updateBackend", "updateManagedBackend"}
\* the signature of the metadata is one the configured key made over the
\* SHA-256 digest of the declared hash string
SigVerifies(meta) ==
  /\ meta.Signature.b64
  /\ meta.Signature.signer = PublicKey
  /\ meta.Signature.msg = Sha256(meta.SHA256)
\* a binary attempt has come to the signature check with a bad signature
BadSignature(a) ==
  Binary(a) /\ Downloaded(a) /\ ~Mismatch(a) /\ "hash" \in a.stages
    /\ ~SigVerifies(a.meta)
C12_BadSignatureStep ==
  (\E p \in Procs : up'[p] # up[p] /\ BadSignature(up'[p])) =>
    bin' = bin /\ version' = version /\ managedVersions' = managedVersions

\* C12: a backend update whose artifact has the declared digest and whose
\* signature does not verify under the configured key (another key, a
\* signature over something else, or no base64) never applies the binary
\* and never changes a version; it calls OnUpdateFailure with an error
\* wrapping ErrUpdateVerify, then OnUpdateResult with success=false.
C12_BadSignatureNeverApplied ==
  /\ [](\A p \in Procs :
          BadSignature(up[p]) =>
            LET a == up[p] IN
            /\ a.pc \in {"sig", "done"}
            /\ ~a.applied /\ "apply" \notin a.stages /\ "commit" \notin a.stages
            /\ a.pc = "done" =>
                 /\ a.fail = "sig"
                 /\ a.endv = a.snap
                 /\ Len(a.cb) = 2
                 /\ FirstFailureWraps(a, ErrUpdateVerify)
                 /\ a.cb[2].cb = "OnUpdateResult" /\ ~a.cb[2].success
                 /\ a.cb[2].err # Nil /\ a.cb[2].new = a.latest)
  /\ [][C12_BadSignatureStep]_vars

C12_Witness ==
  \E p \in Procs :
    /\ BadSignature(up[p]) /\ up[p].pc = "done" /\ up[p].fn = "updateBackend"
    /\ up[p].meta.Signature.b64 /\ up[p].meta.Signature.signer # PublicKey
    /\ up[p].meta.Signature.msg = Sha256(up[p].meta.SHA256)

\* path lies below the extraction directory and is not that directory
StrictlyInside(path) == Under(path, TmpDir) /\ path # TmpDir
\* the directories an update of the frontend component may write to
UpdateDirs == {TmpDir, LiveDir, BackupDir(LiveDir)}
\* the tar entry attempt a is about to extract
NextEntry(a) == Archives[a.body].entries[a.idx]
\* a step of the extraction loop on an entry whose cleaned target is not
\* strictly inside the extraction directory changes nothing on disk
C13_SkippedEntryStep ==
  \A p \in Procs :
    (/\ up[p].pc = "extract" /\ up'[p] # up[p]
     /\ NextEntry(up[p]).Typeflag # "corrupt"
     /\ ~StrictlyInside(Clean(TmpDir \o NextEntry(up[p]).Name)))
      => disk' = disk /\ up'[p].wrote = up[p].wrote

\* C13: extraction writes nothing for a tar entry whose cleaned target path
\* is not strictly inside the temporary extraction directory: such a step
\* leaves the disk as it is, every target written lies strictly inside it,
\* and nothing outside the update's directories is created or overwritten.
C13_NoWriteOutsideRoot ==
  /\ [](\A p \in Procs : \A w \in up[p].wrote : StrictlyInside(w))
  /\ [](\A n \in disk :
          (\A d \in UpdateDirs : ~Under(n.path, d)) => n \in InitDisk)
  /\ [](\A n \in InitDisk :
          (\A d \in UpdateDirs : ~Under(n.path, d)) => n \in disk)
  /\ [][C13_SkippedEntryStep]_vars

C13_Witness ==
  \E p \in Procs :
    /\ up[p].body = "evil" /\ up[p].pc = "hash"
    /\ up[p].wrote = {TmpDir \o <<"index.html">>}
    /\ Node(<<"etc", "passwd">>, "file", "orig") \in disk

\* the entries of archive b that are regular files or directories and whose
\* cleaned target lies strictly inside the extraction directory
InsideEntries(b) ==
  {i \in DOMAIN Archives[b].entries :
     /\ Archives[b].entries[i].Typeflag \in {"reg", "dir"}
     /\ StrictlyInside(Clean(TmpDir \o Archives[b].entries[i].Name))}
\* the path of entry i of archive b below the extraction directory
RelPath(b, i) ==
  LET t == Clean(TmpDir \o Archives[b].entries[i].Name) IN
  SubSeq(t, Len(TmpDir) + 1, Len(t))
\* what entry i of archive b is: a file or a directory
KindOf(b, i) == IF Archives[b].entries[i].Typeflag = "reg" THEN "file" ELSE "dir"
\* the first entry of archive b with the path of entry i
FirstNaming(b, i) ==
  CHOOSE j \in InsideEntries(b) :
    /\ RelPath(b, j) = RelPath(b, i)
    /\ \A k \in InsideEntries(b) : RelPath(b, k) = RelPath(b, i) => j <= k

\* C14: when updateFrontend has got through the metadata request, the
\* download, the extraction, the hash check and both renames, the live
\* directory holds every regular file and directory of the archive that
\* lies inside the extraction root (as what the first entry with that path
\* says it is), the recorded version of the component is the notified
\* version, and OnUpdateResult has been called with success=true.
C14_FrontendSuccess ==
  \A p \in Procs :
    LET a == up[p] IN
    (a.fn = "updateFrontend" /\ a.pc = "hook") =>
      /\ {"request", "download", "extract", "hash", "apply", "commit"} \subseteq a.stages
      /\ \A i \in InsideEntries(a.body) :
           Node(LiveDir \o RelPath(a.body, i), KindOf(a.body, FirstNaming(a.body, i)),
                a.body) \in disk
      /\ Node(LiveDir, "dir", a.body) \in disk
      /\ managedVersions[a.slug] = a.latest
      /\ a.endv.managed[a.slug] = a.latest
      /\ a.cb = <<CbResult(a.slug, a.old, a.latest, TRUE, Nil)>>

C14_Witness ==
  \E p \in Procs :
    /\ up[p].fn = "updateFrontend" /\ up[p].pc = "hook" /\ up[p].body = "site"
    /\ Node(LiveDir \o <<"assets", "app.js">>, "file", "site") \in disk
    /\ Node(LiveDir \o <<"index.html">>, "file", "site") \in disk
    /\ managedVersions["admin"] = "v2"

\* where an attempt is between updateMu.Lock() and the deferred Unlock()
HeldPcs ==
  {"request", "download", "mktemp", "extract", "hash", "sig", "apply", "swap", "commit",
   "hook"}
\* the attempts that are there
Holders == {p \in Procs : up[p].pc \in HeldPcs}
\* the stages that run under the mutex
LockedStages ==
  {"request", "download", "mktemp", "extract", "hash", "sig", "apply", "commit", "hook"}

\* a step that runs a stage of attempt p, or changes what an update changes,
\* is a step of the one attempt that holds the mutex
C15_StageStep ==
  /\ \A p \in Procs :
       (up'[p].stages \cap LockedStages) # (up[p].stages \cap LockedStages) =>
         updateMu = p /\ Holders = {p}
  /\ (disk' # disk \/ bin' # bin) => updateMu \in Procs /\ Holders = {updateMu}
  /\ (up' # up /\ (version' # version \/ managedVersions' # managedVersions)) =>
       updateMu \in Procs /\ Holders = {updateMu}

\* C15: between the acquisition and the release of the update mutex at most
\* one attempt is in progress, whether a heartbeat notification or
\* UpdatePlugin started it; an attempt that waits for the mutex has run no
\* stage, and every request, download, verification and apply step is a step
\* of the attempt that holds the mutex.
C15_OneAttemptAtATime ==
  /\ [](Cardinality(Holders) <= 1)
  /\ [](\A p \in Procs : p \in Holders <=> updateMu = p)
  /\ [](\A p \in Procs : up[p].pc \in {"pre", "wait"} => up[p].stages = {})
  /\ [][C15_StageStep]_vars

C15_Witness ==
  \E p, q \in Procs :
    /\ up[p].from = "heartbeat" /\ up[p].pc \in {"hash", "apply", "swap"}
    /\ up[q].from = "plugin" /\ up[q].pc = "wait"
    /\ updateMu = p

\* the stages in the order the update functions run them
StageOrder == <<"target", "request", "download", "mktemp", "extract", "hash", "sig", "apply">>
StageNames == {StageOrder[i] : i \in DOMAIN StageOrder}
StageNo(s) == CHOOSE i \in DOMAIN StageOrder : StageOrder[i] = s

\* C16: an update attempt, backend or frontend, that fails at a stage runs
\* no later stage, calls OnUpdateFailure and then calls OnUpdateResult
\* exactly once, with success=false and the error.
C16_FailureThenResult ==
  \A p \in Procs :
    LET a == up[p] IN
    (a.pc = "done" /\ a.fail # "") =>
      /\ \A s \in a.stages \cap StageNames :
           StageNo(s) <= StageNo(a.fail)
      /\ "commit" \notin a.stages /\ "hook" \notin a.stages
      /\ Len(a.cb) = 2
      /\ a.cb[1].cb = "OnUpdateFailure"
      /\ a.cb[2].cb = "OnUpdateResult"
      /\ ~a.cb[2].success
      /\ a.cb[2].err # Nil

\* a step of the update engine (not a setter called by the application)
\* that changes a version record
VersionWritten(p) ==
  /\ up'[p] # up[p]
  /\ \/ version' # version
     \/ managedVersions' # managedVersions
\* the artifact that attempt a installs is in place
Installed(a) ==
  IF a.fn = "updateFrontend"
    THEN Node(LiveDir, "dir", a.body) \in disk
    ELSE bin[IF a.fn = "updateBackend" THEN ComponentSlug ELSE a.slug] = a.body

\* a version record changes only in the step after a successful apply, and
\* only the record of the component that was updated
C17_VersionStep ==
  \A p \in Procs :
    VersionWritten(p) =>
      /\ up[p].pc = "commit" /\ up[p].applied /\ "apply" \in up[p].stages
      /\ up[p].fail = "" /\ up'[p].fail = ""
      /\ Installed(up[p])
      /\ IF up[p].fn = "updateBackend"
           THEN managedVersions' = managedVersions /\ version' = up[p].latest
           ELSE /\ version' = version
                /\ managedVersions' =
                     [managedVersions EXCEPT ![up[p].slug] = up[p].latest]

\* C17: an update attempt that fails at a stage leaves the version of the
\* primary component and of every managed component as they were before the
\* attempt; the update engine changes a version record only after the apply
\* step has succeeded.
C17_FailureKeepsVersions ==
  /\ [](\A p \in Procs :
          (up[p].pc = "done" /\ up[p].fail # "") => up[p].endv = up[p].snap)
  /\ [][C17_VersionStep]_vars
  /\ [][(up' = up /\ (version' # version \/ managedVersions' # managedVersions)) =>
          (nHb = 0 /\ nPlug = 0 /\ \A p \in Procs : up[p].pc = "none")]_vars

C17_Witness ==
  \E p, q \in Procs :
    /\ up[p].pc = "done" /\ up[p].fail = "apply" /\ up[p].endv = up[p].snap
    /\ up[q].pc = "done" /\ up[q].fail = "" /\ up[q].endv # up[q].snap

\* entry i of heartbeat response r may be acted upon
Eligible(r, i) ==
  /\ ota.Enabled /\ ota.AutoUpdate
  /\ r.net = "ok" /\ r.Status # "kill" /\ ~r.UpdateFrozen
  /\ r.Updates[i].UpdateAvailable
  /\ r.Updates[i].Component \in {ComponentSlug} \cup ManagedSlugs
\* the attempts a step starts on behalf of a heartbeat response
StartedByHeartbeat ==
  {p \in Procs : up[p].pc = "none" /\ up'[p].pc # "none" /\ up'[p].from = "heartbeat"}

C18_HeartbeatStep ==
  IF nHb' = nHb THEN StartedByHeartbeat = {}
  ELSE LET r == hbu'.resp
           l == hbu'.launched
           go == {i \in DOMAIN l : l[i] # "none"}
       IN /\ \A i \in go : Eligible(r, i)
          /\ Cardinality(StartedByHeartbeat) = Cardinality(go)
          /\ \A p \in StartedByHeartbeat :
               \E i \in go : /\ up'[p].fn = l[i]
                             /\ up'[p].slug = r.Updates[i].Component
                             /\ up'[p].latest = r.Updates[i].Latest

\* C18: processing a heartbeat response starts an update attempt for an
\* entry only if OTA.Enabled and OTA.AutoUpdate are true, the response is
\* neither update_frozen nor a kill, the entry has updateAvailable=true and
\* its component is the primary or a configured managed component; for any
\* other entry no attempt is started.
C18_HeartbeatStartsOnlyEligible == [][C18_HeartbeatStep]_vars

C18_Witness ==
  /\ nHb >= 1
  /\ hbu.launched = <<"updateBackend", "updateFrontend">>
  /\ \E p, q \in Procs :
       /\ up[p].from = "heartbeat" /\ up[p].fn = "updateBackend"
       /\ up[q].from = "heartbeat" /\ up[q].fn = "updateFrontend" /\ up[q].slug = "admin"

\* the step in which the post-update hook of attempt p returns an error
HookFails(p) == up[p].pc = "hook" /\ up'[p].hook = "error"

C19_HookErrorStep ==
  \A p \in Procs :
    HookFails(p) =>
      /\ LiveTree(disk') = LiveTree(disk)
      /\ Node(LiveDir, "dir", up[p].body) \in disk'
      /\ \A i \in InsideEntries(up[p].body) :
           \E n \in disk' : n.path = LiveDir \o RelPath(up[p].body, i) /\ n.src = up[p].body
      /\ managedVersions' = managedVersions
      /\ managedVersions'[up[p].slug] = up[p].latest
      /\ version' = version
      /\ up'[p].cb = up[p].cb
      /\ up'[p].pc = "done" /\ up'[p].fail = ""

\* C19: when the post-update hook returns an error after the directory swap
\* succeeded there is no rollback: the live directory keeps the new content,
\* the recorded version stays the new version, and the OnUpdateResult with
\* success=true that was reported is followed by no failure report.
C19_HookErrorNoRollback ==
  /\ [][C19_HookErrorStep]_vars
  /\ [](\A p \in Procs :
          up[p].hook = "error" =>
            /\ up[p].cb = <<CbResult(up[p].slug, up[p].old, up[p].latest, TRUE, Nil)>>
            /\ up[p].endv.managed[up[p].slug] = up[p].latest
            /\ up[p].applied)

C19_Witness ==
  \E p \in Procs :
    /\ up[p].pc = "done" /\ up[p].hook = "error" /\ up[p].body = "site"
    /\ Node(LiveDir \o <<"index.html">>, "file", "site") \in disk
    /\ managedVersions["admin"] = "v2"
    /\ Len(up[p].cb) = 1 /\ up[p].cb[1].success

\* the catalog entry offers an update that UpdatePlugin may install
Fit(e) ==
  /\ e.OTAEnabled /\ e.UpdateAvailable /\ e.CanUpdate
  /\ e.LatestVersion \notin {"<nil>", ""}
\* the slug names the primary component or a managed one
Updatable(slug) == slug \in {ComponentSlug} \cup ManagedSlugs
\* the recorded version of the component when UpdatePlugin returns
AtReturn == IF plug.proc = 0 THEN plug.had ELSE plug.read

\* the claim as it was made, its three cases taken in the order it gives
\* them: a frozen catalog gives ErrUpdateFrozen, otherwise any listed plugin
\* that is no component gives ErrPluginNotManaged and any listed plugin
\* whose recorded version is the latest gives nil, each without an attempt,
\* and nil is returned only with the latest version recorded
C20_AsStated ==
  plug.pc = "done" =>
    /\ plug.ret = Nil => AtReturn = plug.latest
    /\ plug.frozen => plug.ret = ErrUpdateFrozen /\ plug.proc = 0
    /\ (~plug.frozen /\ plug.listed /\ ~Updatable(plug.slug)) =>
         plug.ret = ErrPluginNotManaged /\ plug.proc = 0
    /\ (~plug.frozen /\ plug.listed /\ Updatable(plug.slug) /\ plug.had = plug.latest) =>
         plug.ret = Nil /\ plug.proc = 0

\* a call of UpdatePlugin that starts no attempt changes nothing else
C20_NoAttemptStep ==
  (nPlug' # nPlug /\ plug'.proc = 0) =>
    /\ up' = up /\ disk' = disk /\ bin' = bin
    /\ version' = version /\ managedVersions' = managedVersions

\* C20: UpdatePlugin(slug) returns nil only if the recorded version of the
\* component equals the latest version of the catalog when it returns. When
\* the catalog is update_frozen it returns ErrUpdateFrozen. When the catalog
\* is not frozen and lists the plugin as OTA-enabled, update-available and
\* updatable with a non-empty latest version, it returns ErrPluginNotManaged
\* if the plugin is neither the primary nor a managed component, and nil if
\* the recorded version already equals the latest version. In these three
\* cases no update attempt is started; an attempt is started only for a
\* fit entry of an unfrozen catalog that names a component whose recorded
\* version differs from the latest.
C20_UpdatePluginReturns ==
  /\ [](plug.pc = "done" =>
          /\ plug.ret = Nil => AtReturn = plug.latest
          /\ plug.frozen => plug.ret = ErrUpdateFrozen /\ plug.proc = 0
          /\ (~plug.frozen /\ plug.listed /\ Fit(plug.entry) /\ ~Updatable(plug.slug)) =>
               plug.ret = ErrPluginNotManaged /\ plug.proc = 0
          /\ (~plug.frozen /\ plug.listed /\ Fit(plug.entry) /\ Updatable(plug.slug)
                /\ plug.had = plug.latest) =>
               plug.ret = Nil /\ plug.proc = 0)
  /\ [](plug.proc # 0 =>
          /\ ~plug.frozen /\ plug.listed /\ Fit(plug.entry) /\ Updatable(plug.slug)
          /\ plug.had # plug.latest)
  /\ [][C20_NoAttemptStep]_vars

C20_Witness ==
  /\ plug.pc = "done" /\ plug.listed /\ Fit(plug.entry) /\ ~plug.frozen
  /\ plug.slug = "other" /\ plug.ret = ErrPluginNotManaged /\ plug.proc = 0

(* ------------------- claims on the transition methods ------------------ *)
\* caller c runs the body of method e in this step
Runs(c, e) == smPc[c] = "held" /\ smEv[c] = e /\ smPc'[c] = "idle"

C21_VerifySuccessStep ==
  \A c \in Callers :
    Runs(c, "OnVerifySuccess") =>
      /\ state \in {StateInit, StateGrace} => state' = StateActive
      /\ state \in {StateActive, StateLocked, StateBanned} => state' = state

\* C21: OnVerifySuccess() sets the state to ACTIVE exactly when it finds
\* INIT or GRACE; in ACTIVE, LOCKED and BANNED it leaves the state as it is.
C21_VerifySuccessFromInitOrGrace ==
  /\ [][C21_VerifySuccessStep]_vars
  /\ [](smLast = "OnVerifySuccess" =>
          state = IF smFrom \in {StateInit, StateGrace} THEN StateActive ELSE smFrom)

C21_Witness ==
  /\ smLast = "OnVerifySuccess" /\ smFrom = StateGrace /\ state = StateActive
  /\ \A c \in Callers : smPc[c] = "idle"

C22_LockStep ==
  /\ (state' = StateLocked /\ state # StateLocked) =>
       /\ state = StateGrace
       /\ \E c \in Callers : Runs(c, "OnGracePeriodExpired")
  /\ \A c \in Callers :
       Runs(c, "OnGracePeriodExpired") =>
         state' = IF state = StateGrace THEN StateLocked ELSE state

\* C22: every step that changes the state to LOCKED starts in GRACE and is
\* an OnGracePeriodExpired event; in INIT, ACTIVE, LOCKED and BANNED
\* OnGracePeriodExpired leaves the state as it is.
C22_LockedOnlyFromGrace ==
  /\ [][C22_LockStep]_vars
  /\ [](smLast = "OnGracePeriodExpired" =>
          state = IF smFrom = StateGrace THEN StateLocked ELSE smFrom)

C22_Witness ==
  /\ smLast = "OnGracePeriodExpired" /\ smFrom = StateGrace /\ state = StateLocked
  /\ \A c \in Callers : smPc[c] = "idle"

C25_HeartbeatStep ==
  \A c \in Callers :
    /\ Runs(c, "OnHeartbeatOK") =>
         /\ state \in {StateGrace, StateActive} => state' = StateActive
         /\ state \in {StateInit, StateLocked, StateBanned} => state' = state
    /\ Runs(c, "OnHeartbeatFail") =>
         /\ state = StateActive => state' = StateGrace
         /\ state \in {StateInit, StateGrace, StateLocked, StateBanned} => state' = state

\* C25: OnHeartbeatOK() takes GRACE and ACTIVE to ACTIVE and leaves INIT,
\* LOCKED and BANNED as they are; OnHeartbeatFail() takes ACTIVE to GRACE and
\* leaves INIT, GRACE, LOCKED and BANNED as they are.
C25_HeartbeatTransitions ==
  /\ [][C25_HeartbeatStep]_vars
  /\ [](smLast = "OnHeartbeatOK" =>
          state = IF smFrom \in {StateGrace, StateActive} THEN StateActive ELSE smFrom)
  /\ [](smLast = "OnHeartbeatFail" =>
          state = IF smFrom = StateActive THEN StateGrace ELSE smFrom)

C25_Witness ==
  /\ smLast = "OnHeartbeatOK" /\ smFrom = StateGrace /\ state = StateActive
  /\ \A c \in Callers : smPc[c] = "idle"

(* ---------------------- claims on the heartbeat loop ------------------- *)
\* the step is the beginning of a call of Start that takes loop slot l for
\* the goroutine it is going to launch
StartTakes(l) ==
  /\ appPc = "idle" /\ appPc' = "verify"
  /\ nStarts' = nStarts + 1
  /\ gCancel' = l /\ hbPc'[l] = "none"
\* loop l moves in this step
LoopMoves(l) == hbPc'[l] # hbPc[l]

C23_ExitedStep ==
  /\ \A l \in Loops :
       /\ hbPc[l] = "done" =>
            \/ hbPc'[l] = "done" /\ hbErr'[l] = hbErr[l] /\ hbLast'[l] = hbLast[l]
            \/ StartTakes(l)
       /\ (hbPc[l] \in {"none", "done"} /\ hbPc'[l] \notin {"none", "done"}) =>
            appPc = "spawn" /\ gCancel = l /\ hbPc'[l] = "sleep"
       /\ hbPc'[l] = "inflight" => hbPc[l] \in {"sleep", "inflight"}
  /\ state' # state =>
       \/ appPc = "verified"
       \/ \E l \in Loops : hbPc[l] \in {"inflight", "handle", "graceCheck"} /\ LoopMoves(l)

\* C23: once a heartbeat loop has exited, after the grace period expired,
\* after a kill or a fatal error, or after cancellation, it sends no further
\* heartbeat request and makes no further state transition; a heartbeat
\* loop runs again only when a new call of Start launches one.
C23_ExitIsFinal == [][C23_ExitedStep]_vars

C23_Witness ==
  /\ nStarts = 2 /\ appPc = "idle"
  /\ \E l, k \in Loops :
       /\ hbPc[l] = "done" /\ hbLast[l] # "none"
       /\ hbPc[k] = "inflight"

\* the running loops whose context has not been cancelled
Uncancelled == {l \in Running : ~cancelled[l]}

\* C24: whatever calls of Start and Stop are made on a Guard, at most one
\* heartbeat loop is running at any time (a loop that has been cancelled
\* and is about to exit not counted), and in every state Stop returns
\* into, those in which the context held in g.cancel is cancelled, no loop
\* of the Guard is left uncancelled.
C24_OneLoop ==
  /\ Cardinality(Uncancelled) <= 1
  /\ (gCancel # 0 /\ cancelled[gCancel]) => Uncancelled = {}
C26_WakeStep ==
  \A l \in Loops :
    /\ (hbPc[l] = "sleep" /\ cancelled[l] /\ LoopMoves(l)) => hbPc'[l] = "done"
    /\ (cancelled[l] /\ hbPc'[l] = "inflight") => hbPc[l] = "inflight"

\* C26: cancellation is checked first on every wake of the heartbeat loop:
\* a loop whose context is cancelled when it wakes from its sleep exits
\* without sending a heartbeat, even if its timer has expired as well, so
\* that no heartbeat request is started once the context is cancelled.
C26_CancelCheckedFirst == [][C26_WakeStep]_vars

(* ------------- the heartbeat loop of a Guard with OTA enabled ---------- *)
\* sendHeartbeat called by loop l, from the return of postJSON to its own
\* return: OnKill on a kill, else the goroutines for the update entries
LoopSendHeartbeat(l, resp) ==
  /\ hbPc[l] = "inflight"
  /\ postJSON(resp) = Nil => nHb < MaxHeartbeats
  /\ LET d == dispatch(ota, resp)
         go == {i \in DOMAIN d : d[i] # "none"}
         rank(i) == Cardinality({j \in go : j <= i})
     IN /\ Cardinality(FreeProcs) >= Cardinality(go)
        /\ up' = [p \in Procs |->
                    IF \E i \in go : p = NthFree(rank(i))
                      THEN LET i == CHOOSE j \in go : p = NthFree(rank(j)) IN
                           NewAttempt(d[i], resp.Updates[i].Component,
                                      resp.Updates[i].Latest, "heartbeat")
                      ELSE up[p]]
        /\ hbu' = [resp |-> resp, launched |-> d]
  /\ state' = sendHeartbeatState(resp, state)
  /\ hbErr' = [hbErr EXCEPT ![l] = sendHeartbeatErr(resp)]
  /\ hbLast' = [hbLast EXCEPT ![l] = ResponseKind(resp)]
  /\ hbSeen' = hbSeen \cup {ResponseKind(resp)}
  /\ hbPc' = [hbPc EXCEPT ![l] = "handle"]
  /\ nHb' = IF postJSON(resp) = Nil THEN nHb + 1 ELSE nHb
  /\ UNCHANGED <<cache, appPc, gCancel, cancelled, nStarts, startRes, verified, hbTimer,
                 graceStart, smVars, vl, snapVars, ota, version, managedVersions, updateMu, disk,
                 bin, nPlug, plug>>

NextDispatch ==
  \/ \E l \in Loops : HBWake(l)
  \/ \E l \in Loops, resp \in UpdateHeartbeats : LoopSendHeartbeat(l, resp)
  \/ \E l \in Loops, r \in 0 .. RandSteps - 1 : HBHandle(l, r)
  \/ \E l \in Loops, r \in 0 .. RandSteps - 1 : HBGraceCheck(l, r)
  \/ Tick
  \/ \E p \in Procs, exeOk \in BOOLEAN : UpdPre(p, exeOk)
  \/ \E p \in Procs : UpdLock(p)

\* the heartbeat loop of a started Guard and the update goroutines its
\* responses launch, up to their taking the update mutex
SpecDispatch == InitUpdate /\ [][NextDispatch]_vars

\* C27: when a heartbeat response is a success, the state-machine
\* transition it triggers (OnHeartbeatOK, GRACE to ACTIVE) has taken effect
\* when the update attempts derived from that response are dispatched.
C27_TransitionBeforeDispatch ==
  [][StartedByHeartbeat # {} => state = OnHeartbeatOK(state) /\ state' = state]_vars

(* ----------------------- claims on the license cache ------------------- *)
\* the step is the verifyLicense call of Start
VerifyStep == appPc = "verify" /\ appPc' # "verify"

C28_CacheStep ==
  /\ cache' # cache =>
       /\ VerifyStep
       /\ ~CacheHit(cache)
       /\ startRes'.verr = Nil
       /\ \E resp \in StartResponses :
            /\ postJSON(resp) = Nil /\ resp.Error = ""
            /\ cache' = Entry(LicenseKey, resp.PublicData, resp.Signature, "t1")
  /\ (VerifyStep /\ (CacheHit(cache) \/ startRes'.verr # Nil)) => cache' = cache
  /\ (state' # state \/ \E l \in Loops : LoopMoves(l)) => cache' = cache

SwapFails(p) == up[p].pc = "swap" /\ up'[p].pc = "done" /\ up'[p].fail = "apply"

C29_SwapFailureStep ==
  \A p \in Procs :
    SwapFails(p) =>
      /\ up[p].cb = <<>> /\ Len(up'[p].cb) = 1
      /\ FirstFailureWraps(up'[p], ErrUpdateApply)
      /\ version' = version /\ managedVersions' = managedVersions
      /\ up'[p].endv = up[p].snap
      /\ ~up'[p].applied
      /\ \A n \in disk' : ~Under(n.path, TmpDir)
      /\ (up'[p].swap = "move failed" /\ IsDir(disk, LiveDir)) =>
           /\ LiveTree(disk') = LiveTree(disk)
           /\ \A n \in disk' : ~Under(n.path, BackupDir(LiveDir))
      /\ (up'[p].swap = "move and rollback failed") =>
           /\ LiveTree(disk') = {}
           /\ Rename(LiveTree(disk), LiveDir, BackupDir(LiveDir)) \subseteq disk'

Hooked(a) ==
  /\ a.fn \in {"updateManagedBackend", "updateFrontend"}
  /\ findManagedComponent(a.slug).mc.PostUpdate

\* C30: after every successful update of a managed component that has a
\* post-update hook, be its strategy frontend or backend, the hook has been
\* invoked once, after the version record was updated and OnUpdateResult
\* with success=true was invoked; for a failed attempt it is not invoked.
C30_HookAfterSuccess ==
  \A p \in Procs :
    LET a == up[p] IN
    Hooked(a) =>
      /\ (a.pc = "done" /\ a.fail = "") => a.hook \in {"ok", "error"}
      /\ a.hook # "none" =>
           /\ a.pc = "done" /\ a.fail = "" /\ "commit" \in a.stages
           /\ a.endv.managed[a.slug] = a.latest
           /\ Len(a.cb) >= 1 /\ a.cb[Len(a.cb)].cb = "OnUpdateResult"
           /\ a.cb[Len(a.cb)].success
      /\ a.fail # "" => a.hook = "none"

(* ------------- the version state and the heartbeat request ------------- *)
\* sync.RWMutex: Lock waits for the writer and for every reader, RLock for
\* the writer only
LockFree(mu) == mu.w = 0 /\ mu.r = {}
RLockFree(mu) == mu.w = 0

\* the calls that write the version state: the setters of the application
\* and the version commits of the update engine
WriteCalls ==
  [fn : {"SetVersion", "updateBackend"}, slug : {ComponentSlug}, v : {"v1", "v2"}]
    \cup [fn : {"SetManagedVersion", "updateFrontend"}, slug : {"admin"},
          v : {"v1", "v2"}]
    \cup [fn : {"SetManagedVersion", "updateManagedBackend"}, slug : {"worker"},
          v : {"v1", "v2"}]

\* g.mu.Lock() of such a call
WriteLock(w, call) ==
  /\ wr[w].pc = "idle"
  /\ LockFree(gMu)
  /\ wr[w].n < MaxWrites
  /\ gMu' = [gMu EXCEPT !.w = w]
  /\ wr' = [wr EXCEPT ![w] = [pc |-> "locked", fn |-> call.fn, slug |-> call.slug,
                              v |-> call.v, n |-> @.n + 1]]
  /\ UNCHANGED <<state, cache, guardVars, smVars, vl, lr, rq, updVars>>

\* g.version = v, or g.managedVersions[slug] = v
WriteVersion(w) ==
  /\ wr[w].pc = "locked"
  /\ LET v == IF wr[w].slug = ComponentSlug THEN wr[w].v ELSE version
         mv == IF wr[w].slug = ComponentSlug THEN managedVersions
               ELSE setManagedVersion(managedVersions, wr[w].slug, wr[w].v)
     IN /\ version' = v
        /\ managedVersions' = mv
        /\ rq' = IF rq.pc = "idle" THEN rq
                 ELSE [rq EXCEPT !.held = @ \cup {Vers(v, mv)}]
  /\ wr' = [wr EXCEPT ![w].pc = "written"]
  /\ UNCHANGED <<state, cache, guardVars, smVars, vl, lr, gMu, ota, updateMu, up, disk,
                 bin, nHb, hbu, nPlug, plug>>

\* g.mu.Unlock(), and the call returns
WriteUnlock(w) ==
  /\ wr[w].pc = "written"
  /\ gMu' = [gMu EXCEPT !.w = 0]
  /\ wr' = [wr EXCEPT ![w] = [NoWrite EXCEPT !.n = wr[w].n]]
  /\ UNCHANGED <<state, cache, guardVars, smVars, vl, lr, rq, updVars>>

\* sendHeartbeat, line 114: g.mu.RLock()
RequestRLock ==
  /\ rq.pc = "idle"
  /\ nHb < MaxHeartbeats
  /\ RLockFree(gMu)
  /\ gMu' = [gMu EXCEPT !.r = @ \cup {"sendHeartbeat"}]
  /\ rq' = [NoRequest EXCEPT !.pc = "version", !.sent = rq.sent,
                             !.held = {Vers(version, managedVersions)}]
  /\ UNCHANGED <<state, cache, guardVars, smVars, vl, lr, wr, updVars>>

\* line 115: currentVersion := g.version
RequestVersion ==
  /\ rq.pc = "version"
  /\ rq' = [rq EXCEPT !.pc = "range", !.currentVersion = version]
  /\ UNCHANGED <<state, cache, guardVars, smVars, vl, lr, gMu, wr, updVars>>

\* lines 117-119: one iteration of the range over g.managedVersions, whose
\* order is not specified
RequestCopy(k) ==
  /\ rq.pc = "range"
  /\ k \in ManagedSlugs \ DOMAIN rq.managedVersionsSnapshot
  /\ rq' = [rq EXCEPT !.managedVersionsSnapshot =
                        [c \in DOMAIN @ \cup {k} |->
                           IF c = k THEN managedVersions[k] ELSE @[c]]]
  /\ UNCHANGED <<state, cache, guardVars, smVars, vl, lr, gMu, wr, updVars>>

\* line 120: the range is over, g.mu.RUnlock()
RequestRUnlock ==
  /\ rq.pc = "range"
  /\ DOMAIN rq.managedVersionsSnapshot = ManagedSlugs
  /\ gMu' = [gMu EXCEPT !.r = @ \ {"sendHeartbeat"}]
  /\ rq' = [rq EXCEPT !.pc = "build"]
  /\ UNCHANGED <<state, cache, guardVars, smVars, vl, lr, wr, updVars>>

\* the version of the entry of a managed component
\* mutant: g.managedVersions is read while the request is built
componentVersionLive(snapshot, live, slug) == live[slug]
\* line 132: managedVersionsSnapshot[mc.Slug], "" for a missing key
componentVersion(snapshot, live, slug) ==
  IF slug \in DOMAIN snapshot THEN snapshot[slug] ELSE ""

\* lines 122-134: the entry of the primary component, then one entry for
\* each managed component in the order of cfg.ManagedComponents
RequestAppend ==
  /\ rq.pc = "build"
  /\ Len(rq.components) <= Len(ManagedComponents)
  /\ LET n == Len(rq.components)
         entry == IF n = 0
                    THEN [slug |-> ComponentSlug, version |-> rq.currentVersion]
                    ELSE [slug |-> ManagedComponents[n].Slug,
                          version |-> componentVersion(rq.managedVersionsSnapshot,
                                                       managedVersions,
                                                       ManagedComponents[n].Slug)]
     IN rq' = [rq EXCEPT !.components = Append(@, entry)]
  /\ UNCHANGED <<state, cache, guardVars, smVars, vl, lr, gMu, wr, updVars>>

\* lines 136-144: the request body is complete and is posted
RequestPost ==
  /\ rq.pc = "build"
  /\ Len(rq.components) = Len(ManagedComponents) + 1
  /\ rq' = [rq EXCEPT !.pc = "idle", !.sent = rq.components]
  /\ nHb' = nHb + 1
  /\ UNCHANGED <<state, cache, guardVars, smVars, vl, lr, gMu, wr, ota, version,
                 managedVersions, updateMu, up, disk, bin, hbu, nPlug, plug>>

NextSnapshot ==
  \/ \E w \in Writers, call \in WriteCalls : WriteLock(w, call)
  \/ \E w \in Writers : WriteVersion(w)
  \/ \E w \in Writers : WriteUnlock(w)
  \/ RequestRLock
  \/ RequestVersion
  \/ \E k \in ManagedSlugs : RequestCopy(k)
  \/ RequestRUnlock
  \/ RequestAppend
  \/ RequestPost

\* sendHeartbeat builds its request while the application and the update
\* engine write the versions
InitOTA == InitUpdate /\ ota = [Enabled |-> TRUE, AutoUpdate |-> TRUE]
SpecSnapshot == InitOTA /\ [][NextSnapshot]_vars

\* the versions a list of component entries carries
RequestVersions(components) ==
  Vers(components[1].version,
       [c \in ManagedSlugs |->
          components[CHOOSE i \in DOMAIN components : components[i].slug = c].version])

\* C31: the versions of one heartbeat request, the primary component's and
\* every managed component's, are values g.version and g.managedVersions
\* held together at one instant of the call, whatever SetVersion,
\* SetManagedVersion and the version commits of update attempts do
\* meanwhile; every entry comes from the copy made under the read lock, no
\* writer runs while that copy is made, and the entries built so far are
\* those of the copy whatever g.managedVersions has become.
C31_SnapshotUnderReadLock ==
  /\ rq.pc \in {"version", "range"} =>
       /\ "sendHeartbeat" \in gMu.r /\ gMu.w = 0
       /\ rq.held = {Vers(version, managedVersions)}
  /\ \A i \in DOMAIN rq.components :
       rq.components[i].version =
         IF i = 1 THEN rq.currentVersion
         ELSE rq.managedVersionsSnapshot[rq.components[i].slug]
  /\ rq.pc = "idle" /\ rq.sent # <<>> =>
       /\ Len(rq.sent) = Len(ManagedComponents) + 1
       /\ RequestVersions(rq.sent) \in rq.held
C31_Witness ==
  /\ rq.pc = "idle" /\ rq.sent # <<>>
  /\ rq.sent[1].version = "v1"
  /\ Cardinality(rq.held) > 2
  /\ RequestVersions(rq.sent) # Vers(version, managedVersions)

(* ---------------- a server that stops answering an attempt -------------- *)
\* what ends a network call of an attempt when the server stays silent:
\* requestDownloadMeta and downloadArtifactWithProgress run under
\* context.WithTimeout(OTA.DownloadTimeout); updateFrontend posts with
\* context.Background() through g.httpClient, whose Timeout New sets, and
\* downloads with http.Get, the default client, which has no timeout
Deadline(fn, call) ==
  CASE fn # "updateFrontend" -> "DownloadTimeout"
    [] call = "request" -> "httpClient.Timeout"
    [] OTHER -> "none"

\* the server accepts the metadata request or the download and sends
\* nothing: the call fails when its deadline expires, and never returns
\* when it has none
UpdStall(p) ==
  /\ up[p].pc \in {"request", "download"}
  /\ LET a == up[p]
         now == Vers(version, managedVersions)
         err == Err("context deadline exceeded", 0, Deadline(a.fn, a.pc))
         cbs == IF a.fn = "updateFrontend"
                  THEN frontendFailure(a.slug, ErrUpdateDownload, err)
                  ELSE binaryFailure(a.slug, a.old, a.latest, ErrUpdateDownload, err)
     IN IF Deadline(a.fn, a.pc) = "none"
          THEN /\ up' = [up EXCEPT ![p] = [a EXCEPT !.pc = "stalled"]]
               /\ UNCHANGED updateMu
          ELSE /\ up' = [up EXCEPT ![p] = Failed(a, a.pc, cbs, now)]
               /\ updateMu' = 0
  /\ UNCHANGED <<state, lifeVars, ota, version, managedVersions, disk, bin, nHb, hbu,
                 nPlug, plug>>

NextStall ==
  \/ NextPlugin
  \/ \E p \in Procs : UpdStall(p)

\* UpdatePlugin called by the application while the server may stop
\* answering at any request of an attempt
SpecStall == InitUpdate /\ [][NextStall]_vars

\* C32: every update attempt ends and releases g.updateMu even when the
\* server never answers the metadata request or stalls the download: each
\* of the two calls runs under a deadline, so no attempt is left waiting on
\* the server with the mutex held, and no later attempt waits for that
\* mutex forever.
C32_StalledAttemptTimesOut ==
  \A p \in Procs :
    /\ up[p].pc \in {"request", "download"} => Deadline(up[p].fn, up[p].pc) # "none"
    /\ up[p].pc # "stalled"

\* attempt p returns in this step
Ends(p) == up[p].pc \notin {"none", "done"} /\ up'[p].pc = "done"
\* the stages of updateFrontend between os.MkdirTemp and its return
TmpDirStages == {"extract", "hash", "swap", "commit", "hook"}

\* the step in which an attempt returns leaves no temporary file of that
\* attempt and, for a frontend attempt, nothing at its temporary directory
C33_EndStep ==
  \A p \in Procs :
    Ends(p) =>
      /\ up'[p].tmpPath # "there"
      /\ up[p].fn = "updateFrontend" => \A n \in disk' : ~Under(n.path, TmpDir)

Min(a, b) == IF a < b THEN a ELSE b
\* mutant: the buffer is not cut down to what is left of the limit
limitNone(len, N) == len
\* io.LimitedReader.Read: if int64(len(p)) > l.N { p = p[0:l.N] }
limit(len, N) == IF len > N THEN N ELSE len

\* downloadArtifactWithProgress and updateFrontend wrap the response body:
\* io.LimitReader(httpResp.Body, maxBytes)
LimitReader(fn, body, maxBytes) ==
  /\ lr.pc = "idle"
  /\ lr' = [NoCopy EXCEPT !.pc = "copy", !.fn = fn, !.body = body, !.max = maxBytes,
                          !.N = maxBytes]
  /\ UNCHANGED <<state, cache, guardVars, smVars, vl, gMu, wr, rq, updVars>>

\* one Read through the limited reader, by io.Copy (backend) or by the
\* decompressor through the TeeReader (frontend): EOF once the limit is
\* used up or the body is at its end; otherwise the body gives n bytes,
\* from one byte to what the cut buffer takes, and they go to the hasher
\* and to the temporary file or the decompressor
Read(n) ==
  /\ lr.pc = "copy"
  /\ IF lr.N <= 0 \/ lr.body = 0
       THEN n = 0 /\ lr' = [lr EXCEPT !.pc = "eof"]
       ELSE /\ n \in 1 .. Min(limit(BufBytes, lr.N), lr.body)
            /\ lr' = [lr EXCEPT !.body = @ - n, !.N = @ - n, !.read = @ + n,
                                !.hashed = @ + n, !.out = @ + n]
  /\ UNCHANGED <<state, cache, guardVars, smVars, vl, gMu, wr, rq, updVars>>

\* the download is over, the next one may begin
Close ==
  /\ lr.pc = "eof"
  /\ lr' = [lr EXCEPT !.pc = "idle"]
  /\ UNCHANGED <<state, cache, guardVars, smVars, vl, gMu, wr, rq, updVars>>

NextDownload ==
  \/ \E fn \in {"downloadArtifactWithProgress", "updateFrontend"},
        body \in 0 .. MaxBodyBytes, maxBytes \in 1 .. MaxLimitBytes :
       LimitReader(fn, body, maxBytes)
  \/ \E n \in 0 .. BufBytes : Read(n)
  \/ Close

\* download bodies of any length read under any configured limit
SpecDownload == InitOTA /\ [][NextDownload]_vars

\* C34: whatever the length of the body the server sends, at most
\* OTA.MaxArtifactBytes bytes of a download are read from it, hashed, and
\* written to the temporary artifact (backend) or fed to the decompressor
\* (frontend); what goes to the hasher and to the file or decompressor is
\* exactly what was read.
C34_AtMostMaxArtifactBytes ==
  /\ lr.read <= lr.max /\ lr.hashed <= lr.max /\ lr.out <= lr.max
  /\ lr.hashed = lr.read /\ lr.out = lr.read
  /\ lr.pc \in {"eof", "idle"} /\ lr.fn # "none" =>
       lr.read = Min(lr.read + lr.body, lr.max)
C34_Witness ==
  /\ lr.pc = "eof" /\ lr.fn = "updateFrontend"
  /\ lr.body > 0 /\ lr.read = lr.max /\ lr.max > BufBytes

\* a step of the attempt started for component c changes no version record
\* but c's, which it sets to the notified version, and no target but c's:
\* the binary at c's path, or the live directory when that is c's Dir
C35_AttemptStep ==
  \A p \in Procs :
    (up[p].pc # "none" /\ up'[p] # up[p]) =>
      LET c == up[p].notified IN
      /\ version' # version => c = ComponentSlug /\ version' = up[p].latest
      /\ \A m \in ManagedSlugs :
           managedVersions'[m] # managedVersions[m] =>
             m = c /\ managedVersions'[m] = up[p].latest
      /\ \A b \in DOMAIN bin : bin'[b] # bin[b] => b = c
      /\ LiveTree(disk') # LiveTree(disk) => findManagedComponent(c).mc.Dir = LiveDir
      /\ (up[p].pc = "commit" /\ up'[p].fail = "") =>
           Vers(version', managedVersions') =
             IF c = ComponentSlug THEN Vers(up[p].latest, managedVersions)
             ELSE Vers(version, setManagedVersion(managedVersions, c, up[p].latest))

SwapBackup(p, ok) ==
  /\ up[p].pc = "swap"
  /\ LET a == up[p]
         now == Vers(version, managedVersions)
         dir == findManagedComponent(a.slug).mc.Dir
         cbs == frontendFailure(a.slug, ErrUpdateApply,
                                Err("rename", 0, "backup failed"))
         d0 == RemoveAll(disk, BackupDir(dir))
     IN IF IsDir(d0, dir) /\ ~ok
          THEN /\ up' = [up EXCEPT ![p] =
                           Failed([a EXCEPT !.swap = "backup failed"], "apply", cbs, now)]
               /\ disk' = RemoveAll(d0, TmpDir)
               /\ updateMu' = 0
          ELSE /\ ok
               /\ up' = [up EXCEPT ![p] = [a EXCEPT !.pc = "move"]]
               /\ disk' = IF IsDir(d0, dir) THEN Rename(d0, dir, BackupDir(dir)) ELSE d0
               /\ UNCHANGED updateMu
  /\ UNCHANGED <<state, lifeVars, ota, version, managedVersions, bin, nHb, hbu, nPlug,
                 plug>>

\* os.Rename(tmpDir, mc.Dir) and, when it fails, the rollback rename
SwapMove(p, outcome) ==
  /\ up[p].pc = "move"
  /\ outcome \in SwapOutcomes \ {"backup failed"}
  /\ LET a == [up[p] EXCEPT !.swap = outcome]
         now == Vers(version, managedVersions)
         dir == findManagedComponent(a.slug).mc.Dir
         had == IsDir(disk, BackupDir(dir))
         cbs == frontendFailure(a.slug, ErrUpdateApply, Err("rename", 0, outcome))
     IN CASE outcome = "ok" ->
               /\ up' = [up EXCEPT ![p] =
                           [a EXCEPT !.pc = "commit", !.applied = TRUE,
                                     !.stages = @ \cup {"apply"}]]
               /\ disk' = Rename(disk, TmpDir, dir)
               /\ UNCHANGED updateMu
          [] outcome = "move failed" ->
               /\ up' = [up EXCEPT ![p] = Failed(a, "apply", cbs, now)]
               /\ disk' = RemoveAll(swapRollback(disk, dir, had), TmpDir)
               /\ updateMu' = 0
          [] OTHER ->
               /\ had
               /\ up' = [up EXCEPT ![p] = Failed(a, "apply", cbs, now)]
               /\ disk' = RemoveAll(disk, TmpDir)
               /\ updateMu' = 0
  /\ UNCHANGED <<state, lifeVars, ota, version, managedVersions, bin, nHb, hbu, nPlug,
                 plug>>

NextSwap ==
  \/ SetVersion("v2")
  \/ SetManagedVersion("admin", "v2")
  \/ \E slug \in Slugs \cup {""}, cat \in Catalogs : UpdatePluginCall(slug, cat)
  \/ UpdatePluginReturn
  \/ \E p \in Procs, exeOk \in BOOLEAN : UpdPre(p, exeOk)
  \/ \E p \in Procs : UpdLock(p)
  \/ \E p \in Procs, meta \in BinaryMetas \cup FrontendMetas : UpdRequest(p, meta)
  \/ \E p \in Procs, dl \in Downloads(Blobs \cup ArchiveNames) : UpdDownload(p, dl)
  \/ \E p \in Procs, ok \in BOOLEAN : UpdMkTemp(p, ok)
  \/ \E p \in Procs, io \in BOOLEAN : UpdExtract(p, io)
  \/ \E p \in Procs : UpdVerifyHash(p)
  \/ \E p \in Procs : UpdVerifySig(p)
  \/ \E p \in Procs, outcome \in ApplyOutcomes : UpdApply(p, outcome)
  \/ \E p \in Procs, ok \in BOOLEAN : SwapBackup(p, ok)
  \/ \E p \in Procs, outcome \in SwapOutcomes : SwapMove(p, outcome)
  \/ \E p \in Procs : UpdCommit(p)
  \/ \E p \in Procs, hookOk \in BOOLEAN : UpdHook(p, hookOk)

\* an update started by UpdatePlugin, the file system being observable
\* between the renames of the swap
SpecSwap == InitUpdate /\ [][NextSwap]_vars

\* the bundle of archive b is at the live path: the directory was made by
\* the extraction of b, holds every file and directory of b that lies
\* inside the extraction root, and nothing that is not of b
NewBundle(d, b) ==
  /\ Node(LiveDir, "dir", b) \in d
  /\ \A n \in LiveTree(d) : n.src = b
  /\ \A i \in InsideEntries(b) :
       Node(LiveDir \o RelPath(b, i), KindOf(b, FirstNaming(b, i)), b) \in d

\* C36: during a frontend apply, at every observation point either the old
\* or the new bundle is fully present at the live directory path, never a
\* mixture and never a partially extracted tree.
C36_OldOrNewAtLivePath ==
  \/ LiveTree(disk) = LiveTree(InitDisk)
  \/ \E p \in Procs :
       up[p].fn = "updateFrontend" /\ "hash" \in up[p].stages /\ NewBundle(disk, up[p].body)

\* a step taken in LOCKED leaves the state LOCKED, or makes it BANNED when
\* it is the step in which a loop receives a kill response
C37_LockedStep ==
  state = StateLocked =>
    /\ state' \in {StateLocked, StateBanned}
    /\ state' = StateBanned =>
         \E l \in Loops : hbPc[l] = "inflight" /\ hbLast'[l] = "kill"

\* C37: once the state is LOCKED only OnKill changes it: OnVerifySuccess,
\* OnHeartbeatOK, OnHeartbeatFail and OnGracePeriodExpired leave it LOCKED,
\* so a later Start() on the same Guard, with a successful verification and
\* successful heartbeats, never returns the state to ACTIVE, and Check()
\* returns ErrLocked for as long as the state is LOCKED.
C37_LockedUntilKill ==
  /\ [](\A e \in Events \ {"OnKill"} : Apply(e, StateLocked) = StateLocked)
  /\ [](state = StateLocked => Check(state) = ErrLocked)
  /\ [][C37_LockedStep]_vars

\* ... LOCKED after a second Start that verified the license and whose loop
\* received a successful heartbeat
C37_Witness ==
  /\ state = StateLocked
  /\ nStarts = 2 /\ startRes.ret = Nil /\ appPc = "idle"
  /\ gCancel \in Loops /\ hbLast[gCancel] = "ok" /\ hbPc[gCancel] = "sleep"

\* graceStart of a running loop is the time since the first failure of its
\* current run of failed heartbeats: a success clears it, the first failure
\* after a success (or after the start) sets it to now, a further failure
\* keeps it, and otherwise only time moves it; and a step that makes the
\* state LOCKED is the grace check of a loop for which that time is above
\* MaxOfflineDuration
C38_GraceStep ==
  /\ \A l \in Loops :
       /\ (hbPc[l] = "handle" /\ hbPc'[l] # "handle" /\ hbLast[l] = "ok") =>
            graceStart'[l] = ZeroTime
       /\ (hbPc[l] = "handle" /\ hbPc'[l] # "handle" /\ hbLast[l] = "fail") =>
            graceStart'[l] = IF graceStart[l] = ZeroTime THEN 0 ELSE graceStart[l]
       /\ (hbPc[l] \notin {"none", "done", "handle"} /\ graceStart'[l] # graceStart[l]) =>
            /\ graceStart[l] \in 0 .. MaxOfflineDuration
            /\ graceStart'[l] = graceStart[l] + 1
            /\ hbPc' = hbPc /\ state' = state
  /\ (state' = StateLocked /\ state # StateLocked) =>
       \E l \in Loops :
         /\ hbPc[l] = "graceCheck" /\ hbPc'[l] = "done" /\ hbLast[l] = "fail"
         /\ graceStart[l] # ZeroTime /\ graceStart[l] > MaxOfflineDuration

\* C38: the heartbeat loop moves the state to LOCKED only when the time
\* since the first failure of its current run of consecutive failed
\* heartbeats exceeds MaxOfflineDuration; a successful heartbeat resets the
\* grace-start marker, so failures separated by a success do not add up and
\* a failure after a success starts a new full grace window.
C38_LockOnlyAfterFullWindow ==
  /\ [](\A l \in Loops :
          (hbPc[l] = "sleep" /\ hbLast[l] = "ok") => graceStart[l] = ZeroTime)
  /\ [][C38_GraceStep]_vars

\* ... a loop that has had a success and then failures for longer than the
\* window has locked
C38_Witness ==
  \E l \in Loops :
    /\ state = StateLocked /\ nStarts = 1
    /\ hbPc[l] = "done" /\ hbLast[l] = "fail" /\ "ok" \in hbSeen
    /\ graceStart[l] > MaxOfflineDuration

(* ------------------------------------------------------------------------ *)
\* C39: Guard.Start moves the state from INIT to ACTIVE only if, during that
\* call, a license payload whose signature verifies under the configured
\* public key was obtained, from the cache or from the answer of the remote
\* verification: the step of Start that leaves INIT for ACTIVE is taken by a
\* call that got such a payload
C39_ActivateStep ==
  (appPc = "verified" /\ state = StateInit /\ state' = StateActive)
    => startRes.signed

C39_ActiveOnlyWithSignedPayload == [][C39_ActivateStep]_vars

(* ------------------------------------------------------------------------ *)
\* the cache entries that differ from entry f at most in the license key and
\* in the time of verification
Twins(f) ==
  {Entry(lk, f.PublicData, f.Signature, at) :
     lk \in LicenseKeys, at \in {"t0", "t1"}}

\* C40: a cache hit depends only on the signature check of the cached
\* publicData: verifyLicense accepts an entry whose signature verifies
\* whatever its verifiedAt and whether or not its licenseKey is the
\* configured one, and a run on an entry that differs from it only in those
\* two fields, against the same server, returns the same error and sends
\* the same number of requests, none when the signature verifies.
C40_HitIgnoresKeyAndTime ==
  (vl.called /\ vl.file.kind = "entry") =>
    /\ \A twin \in Twins(vl.file) :
         LET other == verifyLicense(twin, vl.resp, vl.wrote) IN
         /\ other.err = vl.out.err
         /\ other.calls = vl.out.calls
    /\ ValidEntry(vl.file) =>
         /\ vl.out.err = Nil
         /\ vl.out.calls = 0
         /\ vl.out.file = vl.file

\* ... an old entry of another license key whose signature verifies, against
\* a server that would have refused the license
C40_Witness ==
  /\ vl.called /\ ValidEntry(vl.file)
  /\ vl.file.LicenseKey # LicenseKey
  /\ vl.file.VerifiedAt = "t0"
  /\ vl.resp.net = "ok" /\ vl.resp.Error = "license_expired"
  /\ vl.out.err = Nil /\ vl.out.calls = 0

====
